---- MODULE Spec2Model ----
(***************************************************************************)
(* State-machine model of the procedural simulation layer of galaxyGPU:    *)
(*   - the particle simulator's initialize/advance dispatch lifecycle      *)
(*     (Galaxy.jsx, Spiral.jsx and the earlier Galaxy revision),           *)
(*   - the tether's chain-length control and trail buffer                  *)
(*     (AirshipController.jsx, Anchor.jsx),                                *)
(*   - the GameJuice state machine and the camera it shakes                *)
(*     (GameJuice.jsx, AirshipController.jsx camera follow).               *)
(* Units: times are milliseconds, lengths and intensities are hundredths   *)
(* of a world unit, time-scale factors are hundredths.                     *)
(***************************************************************************)
EXTENDS Integers, Sequences, FiniteSets, TLC

Max(a, b) == IF a >= b THEN a ELSE b
Min(a, b) == IF a <= b THEN a ELSE b

(***************************************************************************)
(* Bounds of the model.                                                    *)
(***************************************************************************)
MaxRenders == 2
MaxFrames == 3

(***************************************************************************)
(* Particle simulator: components and their hook dependencies.             *)
(***************************************************************************)
\* The three revisions of the particle component in the repository.
Variants == {"Galaxy", "Spiral", "GalaxyCb"}

VARIABLES
    variant,        \* which component is mounted
    renderCount,    \* re-renders of the component since mount
    computeId,      \* identity of the `compute` callback of the last render
    effectDep,      \* dependency value seen by the last run of the init effect
    effectsPending, \* passive effects of the last commit not yet flushed
    initIssued,     \* gl.computeAsync(computeInit) calls made
    initInFlight,   \* init dispatches issued and not yet settled
    initCompleted,  \* init dispatches whose promise resolved
    initFailed,     \* init dispatches whose promise rejected
    advanceCount,   \* gl.compute(computeUpdate) calls made
    drawCount,      \* frames in which the sprite was drawn from the buffers
    call            \* the operation that ran last, with its arguments

simVars == <<variant, renderCount, computeId, effectDep, effectsPending,
             initIssued, initInFlight, initCompleted, initFailed,
             advanceCount, drawCount>>

\* The record kept in `call`: the name of the handler and up to two arguments.
Call(op, a, b) == [op |-> op, a |-> a, b |-> b]

\* useCallback(fn, deps): the identity of `compute` produced by render number r.
\* Spiral passes no dependency array, so every render makes a new function;
\* the earlier Galaxy revision passes [computeInit, gl], both stable.
UseCallback(v, r, prev) ==
    IF v = "Spiral" THEN r ELSE prev

\* The dependency value of the init effect: [gl] in Galaxy, [compute] elsewhere.
EffectDeps(v, cid) == IF v = "Galaxy" THEN 0 ELSE cid

SimInit ==
    /\ variant \in Variants
    /\ renderCount = 0
    /\ computeId = 0
    /\ effectDep = -1
    /\ effectsPending = TRUE
    /\ initIssued = 0
    /\ initInFlight = 0
    /\ initCompleted = 0
    /\ initFailed = 0
    /\ advanceCount = 0
    /\ drawCount = 0
    /\ call = Call("mount", 0, 0)

\* A re-render of the component (parent re-render, context change).
ReRender ==
    /\ call' = Call("ReRender", 0, 0)
    /\ renderCount < MaxRenders
    /\ ~effectsPending
    /\ renderCount' = renderCount + 1
    /\ computeId' = UseCallback(variant, renderCount + 1, computeId)
    /\ effectsPending' = TRUE
    /\ UNCHANGED <<variant, effectDep, initIssued, initInFlight,
                   initCompleted, initFailed, advanceCount, drawCount>>

\* React flushes the passive effects of the last commit: the init effect runs
\* when its dependency changed (always on mount) and calls computeAsync
\* without the caller waiting for the returned promise.
RunEffects ==
    /\ call' = Call("RunEffects", 0, 0)
    /\ effectsPending
    /\ effectsPending' = FALSE
    /\ LET dep == EffectDeps(variant, computeId) IN
       IF dep # effectDep
       THEN /\ effectDep' = dep
            /\ initIssued' = initIssued + 1
            /\ initInFlight' = initInFlight + 1
       ELSE UNCHANGED <<effectDep, initIssued, initInFlight>>
    /\ UNCHANGED <<variant, renderCount, computeId, initCompleted, initFailed,
                   advanceCount, drawCount>>

\* The device finishes an init dispatch: the promise resolves.
InitResolve ==
    /\ call' = Call("InitResolve", 0, 0)
    /\ initInFlight > 0
    /\ initInFlight' = initInFlight - 1
    /\ initCompleted' = initCompleted + 1
    /\ UNCHANGED <<variant, renderCount, computeId, effectDep, effectsPending,
                   initIssued, initFailed, advanceCount, drawCount>>

\* The backend rejects an init dispatch: the promise rejects; Spiral and the
\* earlier Galaxy revision log the error, Galaxy leaves it unhandled.
InitReject ==
    /\ call' = Call("InitReject", 0, 0)
    /\ initInFlight > 0
    /\ initInFlight' = initInFlight - 1
    /\ initFailed' = initFailed + 1
    /\ UNCHANGED <<variant, renderCount, computeId, effectDep, effectsPending,
                   initIssued, initCompleted, advanceCount, drawCount>>

\* One frame tick: the useFrame callback dispatches the update pass and the
\* renderer then draws the sprite from the position buffer.  Frames are
\* considered only once the mount effects have been flushed (initIssued > 0),
\* the order React produces when the flush precedes the first animation frame.
FrameTick ==
    /\ call' = Call("FrameTick", 0, 0)
    /\ initIssued > 0
    /\ advanceCount < MaxFrames
    /\ advanceCount' = advanceCount + 1
    /\ drawCount' = drawCount + 1
    /\ UNCHANGED <<variant, renderCount, computeId, effectDep, effectsPending,
                   initIssued, initInFlight, initCompleted, initFailed>>

(***************************************************************************)
(* Tether: chain-length control and camera follow (AirshipController), and *)
(* the anchor's trail buffer (Anchor).                                     *)
(***************************************************************************)
\* Frame times offered to the frame callbacks, in ms.
DeltaSet == {0, 50, 100}

\* Values of the Leva 'Chain Controls' panel tried by the model, in hundredths:
\* chainMinLength ranges over 1..5 and chainRestLength over 2..15.
ChainMinSet == {100, 200, 500}
ChainRestSet == {200, 600, 800}
ReelSpeedSet == {8}
ExtendSpeedSet == {15}
\* Values of trailLength (0..12) tried by the model.
TrailLengthSet == {0, 2, 6, 12}

ChainLengthInit == 600
ChainRestDefault == 600
ChainMinDefault == 200
ReelSpeedDefault == 8
ExtendSpeedDefault == 15
TrailLengthDefault == 6

\* Positions are records of hundredths of a unit.
Vec(a, b, c) == [x |-> a, y |-> b, z |-> c]
\* Camera position configured on the Canvas: [3, 3, 3].
CamInit == Vec(300, 300, 300)
\* Places the physics engine may report for the anchor body.
AnchorPositions == {Vec(0, 800, 0), Vec(100, 700, -200)}
\* Camera targets (player position plus rotated camOffset) tried by the model:
\* the camera's initial place and a place 0.02 further along z.
CamTargets == {CamInit, Vec(300, 300, 302)}

\* The 'Anchor Physics' and 'Mouse Aiming' controls at their initial values:
\* forces in units, the range in hundredths of a unit.
SpringStiffness == 80
SpringDamping == 8
GravityStrength == 20
AimAssistStrength == 3
AimAssistRange == 500
\* The three test enemies: spawn positions and starting health.
EnemyIds == <<1, 2, 3>>
EnemySpawn == <<Vec(500, 500, -1000), Vec(-800, 500, -1500),
                Vec(0, 500, -2000)>>
EnemyHealth == <<3, 5, 4>>
\* The place of the ship body: "ship is at y=10".
ShipPosition == Vec(0, 1000, 0)
\* Places of the anchor body relative to the chain: hanging at its start
\* position, at the ship, at distance 6 and 6.1 below it, at distance 2.05
\* and off to the side.
SpringAnchorPositions == {Vec(0, 800, 0), Vec(0, 1000, 0), Vec(0, 400, 0),
                          Vec(0, 390, 0), Vec(0, 795, 0), Vec(300, 600, 0)}
\* Velocities of the anchor body, in hundredths of a unit per second: at
\* rest, rising at 2 and at 0.5, falling at 2.
AnchorVelocities == {Vec(0, 0, 0), Vec(0, 200, 0), Vec(0, 50, 0),
                     Vec(0, -200, 0)}
\* Places of the anchor body relative to the enemies: 3 from the first, on
\* top of the first, between the second and third (nearer the third, nearer
\* the second, at equal distance from both), and far from all.
AimAnchorPositions == {Vec(200, 800, -1000), Vec(500, 800, -1000),
                       Vec(-400, 800, -1760), Vec(-400, 800, -1740),
                       Vec(-400, 800, -1750), Vec(0, 800, 0)}

Abs(n) == IF n < 0 THEN -n ELSE n

\* Integer division rounding toward zero.
Quot(a, b) == IF a >= 0 THEN a \div b ELSE -((-a) \div b)

\* Math.sqrt on hundredths: the integer square root by Newton's iteration.
RECURSIVE IsqrtIter(_, _)
IsqrtIter(n, x) ==
    LET y == (x + n \div x) \div 2
    IN IF y >= x THEN x ELSE IsqrtIter(n, y)
Isqrt(n) == IF n = 0 THEN 0 ELSE IsqrtIter(n, n)

Sub(a, b) == Vec(a.x - b.x, a.y - b.y, a.z - b.z)
Dot(a, b) == a.x * b.x + a.y * b.y + a.z * b.z
\* Vector3.length(), in the unit of the components.
Length(v) == Isqrt(Dot(v, v))
\* Vector3.normalize(): divideScalar(length() || 1); the result is in
\* thousandths.
Normalize(v) ==
    LET l == Length(v)
    IN IF l = 0 THEN v
       ELSE Vec(Quot(v.x * 1000, l), Quot(v.y * 1000, l), Quot(v.z * 1000, l))

VARIABLES
    chainLength,     \* React state of AirshipController, initially 6
    chainRestLength, \* Leva control
    chainMinLength,  \* Leva control
    reelSpeed,       \* Leva control
    extendSpeed,     \* Leva control
    trailLength,     \* Leva control, passed to Anchor as a prop
    debug,           \* Scene's debug control, passed to AirshipController
    shipReady,       \* rbRef.current of the ship is set
    anchorReady,     \* anchorRef.current of the anchor is set
    trailBuffer,     \* trailBuffer.current, newest entry first
    camPos,          \* camera.position
    enemyState,      \* per Enemy: its React state (currentHealth, isAlive)
    enemyCallbacks,  \* per Enemy: calls of onHit and onDeath made so far
    enemyHandle,     \* per Enemy: the values its attached handle closes over
    enemiesProp,     \* Anchor's enemies prop: handles kept by the last render
    anchorImpulses   \* what Anchor's last frame read and applied to its body

tetherVars == <<chainLength, chainRestLength, chainMinLength, reelSpeed,
                extendSpeed, trailLength, debug, shipReady, anchorReady,
                trailBuffer, camPos, enemyState, enemyCallbacks, enemyHandle,
                enemiesProp,
                anchorImpulses>>

\* The variables of the enemies and of the anchor's forces.
combatVars == <<enemyState, enemyCallbacks, enemyHandle, enemiesProp,
                anchorImpulses>>

\* The count of the calls of a callback after one more call: 0, 1, or 2
\* for more than one.
Counted(n) == IF n = 0 THEN 1 ELSE 2

\* An impulse that was not applied.
NoImpulse == [applied |-> FALSE, v |-> Vec(0, 0, 0)]
\* No frame of the anchor has run: nothing was read, nothing was applied.
NoImpulses == [spring |-> NoImpulse, gravity |-> NoImpulse, aim |-> NoImpulse,
               target |-> 0,
               input |-> [anchor |-> Vec(0, 0, 0), ship |-> Vec(0, 0, 0),
                          vel |-> Vec(0, 0, 0), delta |-> 0]]

\* The state after mount with the trailLength slider at len.
TetherInitWith(len) ==
    /\ chainLength = ChainLengthInit
    /\ chainRestLength = ChainRestDefault
    /\ chainMinLength = ChainMinDefault
    /\ reelSpeed = ReelSpeedDefault
    /\ extendSpeed = ExtendSpeedDefault
    /\ trailLength = len
    /\ debug = FALSE
    /\ shipReady = FALSE
    /\ anchorReady = FALSE
    /\ trailBuffer = <<>>
    /\ camPos = CamInit
    /\ enemyState = [i \in 1..3 |-> [health |-> EnemyHealth[i], alive |-> TRUE]]
    /\ enemyCallbacks = [i \in 1..3 |-> [hit |-> 0, death |-> 0]]
    /\ enemyHandle = [i \in 1..3 |-> [health |-> EnemyHealth[i], alive |-> TRUE]]
    /\ enemiesProp = <<>>
    /\ anchorImpulses = NoImpulses

TetherInit == TetherInitWith(TrailLengthDefault)

\* speed (units per second) times delta (ms), in hundredths of a unit.
Travel(speed, delta) == (speed * delta) \div 10

\* The reel updater with the clamp to chainMinLength left out.
ReelIn_NoClamp(prev, delta, speed, minLen) == prev - Travel(speed, delta)

\* The updater passed to setChainLength while the reel key is held.
ReelIn(prev, delta, speed, minLen) == Max(prev - Travel(speed, delta), minLen)

\* The updater passed to setChainLength while the reel key is released.
Relax(prev, delta, speed, restLen) ==
    IF prev < restLen THEN Min(prev + Travel(speed, delta), restLen) ELSE prev

\* 1 - exp(-delta * 10) in thousandths, delta in seconds: exp(-x) is computed
\* by its (2,2) Pade approximant with x = delta / 100 ms.
SmoothFactor(delta) ==
    1000 - (1000 * (120000 - 600 * delta + delta * delta))
               \div (120000 + 600 * delta + delta * delta)

\* Vector3.lerp with a factor in thousandths.
LerpScalar(a, b, f) == a + ((b - a) * f) \div 1000
Lerp(v, t, f) == Vec(LerpScalar(v.x, t.x, f), LerpScalar(v.y, t.y, f),
                     LerpScalar(v.z, t.z, f))

\* enemyRefs.current.filter(e => e?.isAlive?.()): the handles whose isAlive()
\* answers true, evaluated whenever AirshipController renders.
LiveEnemies == SelectSeq(EnemyIds, LAMBDA i : enemyHandle[i].alive)

\* The Leva 'Chain Controls' panel is edited; the component re-renders with
\* the new values.
SetChainControls ==
    /\ call' = Call("SetChainControls", 0, 0)
    /\ \E mn \in ChainMinSet, rs \in ChainRestSet,
          sp \in ReelSpeedSet, ex \in ExtendSpeedSet :
          /\ chainMinLength' = mn
          /\ chainRestLength' = rs
          /\ reelSpeed' = sp
          /\ extendSpeed' = ex
    /\ enemiesProp' = LiveEnemies
    /\ UNCHANGED <<chainLength, trailLength, debug, shipReady, anchorReady,
                   trailBuffer, camPos, enemyState, enemyCallbacks, enemyHandle,
                   anchorImpulses>>

\* The trailLength slider of the 'Anchor Physics' panel is moved.
SetTrailLength ==
    /\ call' = Call("SetTrailLength", 0, 0)
    /\ \E n \in TrailLengthSet : trailLength' = n
    /\ enemiesProp' = LiveEnemies
    /\ UNCHANGED <<chainLength, chainRestLength, chainMinLength, reelSpeed,
                   extendSpeed, debug, shipReady, anchorReady, trailBuffer,
                   camPos, enemyState, enemyCallbacks, enemyHandle, anchorImpulses>>

\* The debug checkbox of Scene is toggled.
SetDebug ==
    /\ call' = Call("SetDebug", 0, 0)
    /\ debug' = ~debug
    /\ enemiesProp' = LiveEnemies
    /\ UNCHANGED <<chainLength, chainRestLength, chainMinLength, reelSpeed,
                   extendSpeed, trailLength, shipReady, anchorReady,
                   trailBuffer, camPos, enemyState, enemyCallbacks, enemyHandle,
                   anchorImpulses>>

\* The ship's rigid body is created and attached to rbRef.
ShipAttach ==
    /\ call' = Call("ShipAttach", 0, 0)
    /\ ~shipReady
    /\ shipReady' = TRUE
    /\ UNCHANGED <<chainLength, chainRestLength, chainMinLength, reelSpeed,
                   extendSpeed, trailLength, debug, anchorReady, trailBuffer,
                   camPos, combatVars>>

\* The anchor's rigid body is created and attached to anchorRef.
AnchorAttach ==
    /\ call' = Call("AnchorAttach", 0, 0)
    /\ ~anchorReady
    /\ anchorReady' = TRUE
    /\ UNCHANGED <<chainLength, chainRestLength, chainMinLength, reelSpeed,
                   extendSpeed, trailLength, debug, shipReady, trailBuffer,
                   camPos, combatVars>>

\* AirshipController's useFrame callback: chain-length control and camera
\* follow. lasso is the reel key, tgt the camera target computed from the
\* player's position.
AirshipFrame(lasso, delta, tgt) ==
    /\ call' = Call("AirshipFrame", delta, IF lasso THEN 1 ELSE 0)
    /\ IF ~shipReady
       THEN UNCHANGED <<chainLength, camPos, enemiesProp>>
       ELSE /\ chainLength' =
                 IF lasso
                 THEN ReelIn(chainLength, delta, reelSpeed, chainMinLength)
                 ELSE Relax(chainLength, delta, extendSpeed, chainRestLength)
            \* a changed chainLength re-renders the component and with it
            \* the enemies prop of Anchor
            /\ enemiesProp' = IF chainLength' # chainLength THEN LiveEnemies
                              ELSE enemiesProp
            /\ camPos' = IF debug THEN camPos
                         ELSE Lerp(camPos, tgt, SmoothFactor(delta))
    /\ UNCHANGED <<chainRestLength, chainMinLength, reelSpeed, extendSpeed,
                   trailLength, debug, shipReady, anchorReady, trailBuffer,
                   enemyState, enemyCallbacks, enemyHandle, anchorImpulses>>

\* The trail update with the position added at the back and the front entry
\* dropped.
PushTrail_Append(buf, pos, len) ==
    LET pushed == buf \o <<pos>>
    IN IF Len(pushed) > len
       THEN SubSeq(pushed, 2, Len(pushed))
       ELSE pushed

\* The trail update at the end of Anchor's useFrame callback: push the anchor
\* position to the front, then drop one entry from the back when the buffer
\* is longer than trailLength.
PushTrail(buf, pos, len) ==
    LET pushed == <<pos>> \o buf
    IN IF Len(pushed) > len
       THEN SubSeq(pushed, 1, Len(pushed) - 1)
       ELSE pushed

\* The guard of the spring term with the boundary included.
SpringActive_AtBoundary(distance, len) == distance >= len

\* if (distance > chainLength)
SpringActive(distance, len) == distance > len

\* The spring force with its sign reversed.
SpringForce_Repelling(stretch) == stretch * SpringStiffness

\* springForce = -stretch * springStiffness, in hundredths.
SpringForce(stretch) == -(stretch * SpringStiffness)

\* The anchor's velocity projected on the direction, in hundredths.
RadialVelocity(vel, dir) == Quot(Dot(vel, dir), 1000)

\* dampingForce = -radialVelocity * springDamping, in hundredths.
DampingForce(radialVelocity) == -(radialVelocity * SpringDamping)

\* totalForce for an anchor at the given offset from the ship.
TotalForce(offset, vel, len) ==
    SpringForce(Length(offset) - len)
        + DampingForce(RadialVelocity(vel, Normalize(offset)))

\* The spring-damper impulse of one frame: direction (thousandths) times
\* totalForce (hundredths) times delta (ms).
SpringImpulse(anchorPos, shipPos, vel, len, delta) ==
    LET offset == Sub(anchorPos, shipPos)
        dir == Normalize(offset)
        k == TotalForce(offset, vel, len) * delta
    IN IF SpringActive(Length(offset), len)
       THEN [applied |-> TRUE, v |-> Vec(dir.x * k, dir.y * k, dir.z * k)]
       ELSE NoImpulse

\* The gravity impulse of one frame: gravityStrength times delta (ms).
GravityImpulse(delta) ==
    [applied |-> TRUE, v |-> Vec(0, -(GravityStrength * delta), 0)]

\* enemy.getPosition(): the body's translation while the enemy's body is
\* mounted, the spawn position otherwise; the bodies float at their spawn
\* positions.
EnemyPosition(i) == EnemySpawn[i]

\* Horizontal distance from the anchor to an enemy.
HorizontalDistance(anchorPos, e) ==
    Isqrt((e.x - anchorPos.x) * (e.x - anchorPos.x)
          + (e.z - anchorPos.z) * (e.z - anchorPos.z))

\* The scan with every enemy in range replacing the one found before.
Closer_AnyInRange(dist, best) == dist < AimAssistRange

\* if (dist < nearestDist)
Closer(dist, best) == dist < best.dist

\* The loop over the enemies prop from entry k on.
RECURSIVE ScanEnemies(_, _, _, _)
ScanEnemies(es, k, anchorPos, best) ==
    IF k > Len(es) THEN best
    ELSE LET dist == HorizontalDistance(anchorPos, EnemyPosition(es[k]))
         IN ScanEnemies(es, k + 1, anchorPos,
                        IF Closer(dist, best)
                        THEN [target |-> es[k], dist |-> dist]
                        ELSE best)

\* nearestEnemy and nearestDist after the loop; target 0 is "none".
NearestEnemy(es, anchorPos) ==
    ScanEnemies(es, 1, anchorPos, [target |-> 0, dist |-> AimAssistRange])

\* falloff = 1 - nearestDist / aimAssistRange, in thousandths.
Falloff(dist) == 1000 - Quot(dist * 1000, AimAssistRange)

\* The homing impulse of one frame: direction (thousandths) times force
\* (thousandths) times delta (ms).
AimImpulse(es, anchorPos, delta) ==
    LET n == NearestEnemy(es, anchorPos)
    IN IF Len(es) > 0 /\ AimAssistStrength > 0 /\ n.target # 0
       THEN LET e == EnemyPosition(n.target)
                to == Normalize(Vec(e.x - anchorPos.x, 0, e.z - anchorPos.z))
                k == Falloff(n.dist) * AimAssistStrength * delta
            IN [applied |-> TRUE, v |-> Vec(to.x * k, 0, to.z * k)]
       ELSE NoImpulse

\* The target of the homing impulse, 0 when there is none.
AimTarget(es, anchorPos) ==
    IF Len(es) > 0 /\ AimAssistStrength > 0
    THEN NearestEnemy(es, anchorPos).target
    ELSE 0

\* What a frame of the anchor reads from the physics engine and the clock.
FrameInput(anchorPos, shipPos, vel, delta) ==
    [anchor |-> anchorPos, ship |-> shipPos, vel |-> vel, delta |-> delta]

\* Anchor's useFrame callback; anchorPos and vel are the anchor body's
\* translation and velocity, shipPos the ship body's translation.
AnchorFrame(anchorPos, shipPos, vel, delta) ==
    /\ call' = Call("AnchorFrame", delta, 0)
    /\ IF ~anchorReady \/ ~shipReady
       THEN UNCHANGED <<trailBuffer, anchorImpulses>>
       ELSE /\ anchorImpulses' =
                 [spring |-> SpringImpulse(anchorPos, shipPos, vel,
                                           chainLength, delta),
                  gravity |-> GravityImpulse(delta),
                  aim |-> AimImpulse(enemiesProp, anchorPos, delta),
                  target |-> AimTarget(enemiesProp, anchorPos),
                  input |-> FrameInput(anchorPos, shipPos, vel, delta)]
            /\ trailBuffer' = PushTrail(trailBuffer, anchorPos, trailLength)
    /\ UNCHANGED <<chainLength, chainRestLength, chainMinLength, reelSpeed,
                   extendSpeed, trailLength, debug, shipReady, anchorReady,
                   camPos, enemyState, enemyCallbacks, enemyHandle, enemiesProp>>

(***************************************************************************)
(* GameJuice: hitstop, screen shake and slow motion (GameJuice.jsx).       *)
(***************************************************************************)
\* Arguments the triggers are called with. Durations are in ms, intensities
\* and time-scale factors in hundredths.
HitstopDurations == {30, 80}
ShakeArgs == {<<30, 150>>, <<10, 150>>}
SlowMoArgs == {<<20, 300>>, <<50, 0>>}
DamageSet == {1, 5}
\* Values of Math.random() in thousandths.
RandSet == {0, 999}

KillHitstop == 100
KillShakeIntensity == 50
KillShakeDuration == 200
KillSlowMoFactor == 30
KillSlowMoDuration == 250
NormalTimeScale == 100

VARIABLES
    hitstopRemaining, \* juiceState.hitstopRemaining
    shakeIntensity,   \* juiceState.shakeIntensity
    shakeDuration,    \* juiceState.shakeDuration
    slowMoFactor,     \* juiceState.slowMoFactor
    slowMoRemaining,  \* juiceState.slowMoRemaining
    slowMoTarget,     \* juiceState.slowMoTarget
    isShaking,        \* isShaking.current
    originalCamPos,   \* originalCamPos.current
    shakePeak         \* history: largest intensity requested by the triggers
                      \* of the shake that is running

juiceVars == <<hitstopRemaining, shakeIntensity, shakeDuration, slowMoFactor,
               slowMoRemaining, slowMoTarget, isShaking, originalCamPos,
               shakePeak>>

JuiceInit ==
    /\ hitstopRemaining = 0
    /\ shakeIntensity = 0
    /\ shakeDuration = 0
    /\ slowMoFactor = NormalTimeScale
    /\ slowMoRemaining = 0
    /\ slowMoTarget = NormalTimeScale
    /\ isShaking = FALSE
    /\ originalCamPos = Vec(0, 0, 0)
    /\ shakePeak = 0

\* juiceState.shakeIntensity *= juiceState.shakeDecay, with shakeDecay 0.9.
Decay(intensity) == (intensity * 9) \div 10

\* The offset with the factor 2 applied twice.
ShakeOffset_Doubled(r, intensity) == ((r - 500) * 4 * intensity) \div 1000

\* (Math.random() - 0.5) * 2 * intensity, r being Math.random() in thousandths.
ShakeOffset(r, intensity) == ((r - 500) * 2 * intensity) \div 1000

\* The hitstop trigger with the durations added instead of the maximum taken.
HitstopAfterTrigger_Additive(current, duration) == current + duration

\* hitstopRemaining after triggerHitstop(duration).
HitstopAfterTrigger(current, duration) == Max(current, duration)

\* The shake trigger with the requested value overwriting the current one.
ShakeAfterTrigger_Overwrite(current, requested) == requested

\* shakeIntensity or shakeDuration after triggerShake: the larger of the
\* current and the requested value.
ShakeAfterTrigger(current, requested) == Max(current, requested)

\* The arguments triggerHitEffect(damage) passes on.
HitEffectIntensity(damage) == Min(10 + damage * 10, 50)
HitEffectHitstop(damage) == 30 + damage * 20
HitEffectShakeDuration(damage) == 100 + damage * 50

\* The history variable: a trigger that arrives while shakeDuration > 0 joins
\* the running shake, any other trigger starts a new one.
PeakAfterTrigger(intensity) ==
    IF shakeDuration > 0 THEN Max(shakePeak, intensity) ELSE intensity

\* getTimeScale with the slow-motion factor taking precedence over hitstop.
getTimeScale_SlowMoFirst ==
    IF slowMoRemaining > 0 THEN slowMoFactor
    ELSE IF hitstopRemaining > 0 THEN 0 ELSE slowMoFactor

\* getTimeScale(): 0 during hitstop, otherwise the slow-motion factor.
getTimeScale ==
    IF hitstopRemaining > 0 THEN 0 ELSE slowMoFactor

triggerHitstop(duration) ==
    /\ call' = Call("triggerHitstop", duration, 0)
    /\ hitstopRemaining' = HitstopAfterTrigger(hitstopRemaining, duration)
    /\ UNCHANGED <<shakeIntensity, shakeDuration, slowMoFactor, slowMoRemaining,
                   slowMoTarget, isShaking, originalCamPos, shakePeak>>
    /\ UNCHANGED tetherVars

triggerShake(intensity, duration) ==
    /\ call' = Call("triggerShake", intensity, duration)
    /\ shakeIntensity' = ShakeAfterTrigger(shakeIntensity, intensity)
    /\ shakeDuration' = ShakeAfterTrigger(shakeDuration, duration)
    /\ shakePeak' = PeakAfterTrigger(intensity)
    /\ UNCHANGED <<hitstopRemaining, slowMoFactor, slowMoRemaining,
                   slowMoTarget, isShaking, originalCamPos>>
    /\ UNCHANGED tetherVars

triggerSlowMo(factor, duration) ==
    /\ call' = Call("triggerSlowMo", factor, duration)
    /\ slowMoFactor' = factor
    /\ slowMoTarget' = factor
    /\ slowMoRemaining' = duration
    /\ UNCHANGED <<hitstopRemaining, shakeIntensity, shakeDuration, isShaking,
                   originalCamPos, shakePeak>>
    /\ UNCHANGED tetherVars

\* triggerHitEffect(damage): triggerHitstop, then triggerShake.
triggerHitEffect(damage) ==
    /\ call' = Call("triggerHitEffect", damage, 0)
    /\ hitstopRemaining' =
           HitstopAfterTrigger(hitstopRemaining, HitEffectHitstop(damage))
    /\ shakeIntensity' =
           ShakeAfterTrigger(shakeIntensity, HitEffectIntensity(damage))
    /\ shakeDuration' =
           ShakeAfterTrigger(shakeDuration, HitEffectShakeDuration(damage))
    /\ shakePeak' = PeakAfterTrigger(HitEffectIntensity(damage))
    /\ UNCHANGED <<slowMoFactor, slowMoRemaining, slowMoTarget, isShaking,
                   originalCamPos>>
    /\ UNCHANGED tetherVars

\* triggerKillEffect(): triggerHitstop(0.1), triggerShake(0.5, 0.2),
\* triggerSlowMo(0.3, 0.25).
triggerKillEffect ==
    /\ call' = Call("triggerKillEffect", 0, 0)
    /\ hitstopRemaining' = HitstopAfterTrigger(hitstopRemaining, KillHitstop)
    /\ shakeIntensity' = ShakeAfterTrigger(shakeIntensity, KillShakeIntensity)
    /\ shakeDuration' = ShakeAfterTrigger(shakeDuration, KillShakeDuration)
    /\ shakePeak' = PeakAfterTrigger(KillShakeIntensity)
    /\ slowMoFactor' = KillSlowMoFactor
    /\ slowMoTarget' = KillSlowMoFactor
    /\ slowMoRemaining' = KillSlowMoDuration
    /\ UNCHANGED <<isShaking, originalCamPos>>
    /\ UNCHANGED tetherVars

\* The slow-motion factor after a frame without the reset on expiry.
SlowMoFactorAfterFrame_NoReset(factor, remainingAfter) == factor

\* slowMoFactor (and slowMoTarget) after a frame that found
\* slowMoRemaining > 0 and lowered it to remainingAfter.
SlowMoFactorAfterFrame(factor, remainingAfter) ==
    IF remainingAfter <= 0 THEN NormalTimeScale ELSE factor

\* The restore at the end of a shake with the camera left where it is.
RestoreCamera_Keep(cam, origin) == cam

\* The restore at the end of a shake: x and y are set back to the saved
\* origin, z is not written.
RestoreCamera(cam, origin) == Vec(origin.x, origin.y, cam.z)

\* GameJuiceProcessor's useFrame callback; rx and ry are the two values of
\* Math.random() it draws while shaking.
JuiceFrame(delta, rx, ry) ==
    /\ call' = Call("JuiceFrame", delta, 0)
    \* hitstop
    /\ hitstopRemaining' =
           IF hitstopRemaining > 0 THEN hitstopRemaining - delta
           ELSE hitstopRemaining
    \* screen shake
    /\ IF shakeDuration > 0
       THEN LET origin == IF ~isShaking THEN camPos ELSE originalCamPos
            IN /\ originalCamPos' = origin
               /\ isShaking' = TRUE
               /\ camPos' = Vec(origin.x + ShakeOffset(rx, shakeIntensity),
                                origin.y + ShakeOffset(ry, shakeIntensity),
                                camPos.z)
               /\ shakeDuration' = shakeDuration - delta
               /\ shakeIntensity' = Decay(shakeIntensity)
       ELSE IF isShaking
       THEN /\ camPos' = RestoreCamera(camPos, originalCamPos)
            /\ isShaking' = FALSE
            /\ shakeIntensity' = 0
            /\ UNCHANGED <<originalCamPos, shakeDuration>>
       ELSE UNCHANGED <<camPos, isShaking, shakeIntensity, originalCamPos,
                        shakeDuration>>
    \* slow motion
    /\ IF slowMoRemaining > 0
       THEN /\ slowMoRemaining' = slowMoRemaining - delta
            /\ slowMoFactor' =
                   SlowMoFactorAfterFrame(slowMoFactor, slowMoRemaining - delta)
            /\ slowMoTarget' =
                   SlowMoFactorAfterFrame(slowMoTarget, slowMoRemaining - delta)
       ELSE UNCHANGED <<slowMoRemaining, slowMoFactor, slowMoTarget>>
    /\ UNCHANGED shakePeak
    /\ UNCHANGED <<chainLength, chainRestLength, chainMinLength, reelSpeed,
                   extendSpeed, trailLength, debug, shipReady, anchorReady,
                   trailBuffer, combatVars>>

(***************************************************************************)
(* Enemies (Enemy in Anchor.jsx) and their wiring in AirshipController.    *)
(***************************************************************************)
\* Damage that kills any of the three enemies at once.
KillingDamage == {5}

\* takeDamage(damage) called on the handle attached to enemy i: the handle
\* reads isAlive and currentHealth as they were when Enemy last rendered,
\* queues the state updates and calls onHit (triggerHitEffect) and, at zero
\* health, onDeath (triggerKillEffect).  The damage flash only recolours the
\* mesh and is left out.
EnemyTakeDamage(i, damage) ==
    /\ call' = Call("takeDamage", i, damage)
    /\ IF ~enemyHandle[i].alive
       THEN UNCHANGED <<enemyState, enemyCallbacks, juiceVars>>
       ELSE LET newHealth == Max(0, enemyHandle[i].health - damage)
                dies == newHealth <= 0
                hitstop1 == HitstopAfterTrigger(hitstopRemaining,
                                                HitEffectHitstop(damage))
                intensity1 == ShakeAfterTrigger(shakeIntensity,
                                                HitEffectIntensity(damage))
                duration1 == ShakeAfterTrigger(shakeDuration,
                                               HitEffectShakeDuration(damage))
                peak1 == PeakAfterTrigger(HitEffectIntensity(damage))
            IN /\ enemyState' =
                      [enemyState EXCEPT
                          ![i] = [health |-> newHealth,
                                  alive |-> IF dies THEN FALSE ELSE @.alive]]
               /\ enemyCallbacks' =
                      [enemyCallbacks EXCEPT
                          ![i] = [hit |-> Counted(@.hit),
                                  death |-> IF dies THEN Counted(@.death)
                                            ELSE @.death]]
               /\ hitstopRemaining' =
                      IF dies THEN HitstopAfterTrigger(hitstop1, KillHitstop)
                      ELSE hitstop1
               /\ shakeIntensity' =
                      IF dies
                      THEN ShakeAfterTrigger(intensity1, KillShakeIntensity)
                      ELSE intensity1
               /\ shakeDuration' =
                      IF dies
                      THEN ShakeAfterTrigger(duration1, KillShakeDuration)
                      ELSE duration1
               /\ shakePeak' =
                      IF dies
                      THEN (IF duration1 > 0
                            THEN Max(peak1, KillShakeIntensity)
                            ELSE KillShakeIntensity)
                      ELSE peak1
               /\ slowMoFactor' = IF dies THEN KillSlowMoFactor
                                  ELSE slowMoFactor
               /\ slowMoTarget' = IF dies THEN KillSlowMoFactor
                                  ELSE slowMoTarget
               /\ slowMoRemaining' = IF dies THEN KillSlowMoDuration
                                     ELSE slowMoRemaining
               /\ UNCHANGED <<isShaking, originalCamPos>>
    /\ UNCHANGED <<chainLength, chainRestLength, chainMinLength, reelSpeed,
                   extendSpeed, trailLength, debug, shipReady, anchorReady,
                   trailBuffer, camPos, enemyHandle, enemiesProp,
                   anchorImpulses>>

\* Enemy i re-renders with its queued state; useImperativeHandle, which has
\* no dependency list, attaches a new handle closing over the new values.
\* AirshipController does not render: the state belongs to Enemy.
EnemyRender(i) ==
    /\ call' = Call("EnemyRender", i, 0)
    /\ enemyHandle[i] # enemyState[i]
    /\ enemyHandle' = [enemyHandle EXCEPT ![i] = enemyState[i]]
    /\ UNCHANGED <<chainLength, chainRestLength, chainMinLength, reelSpeed,
                   extendSpeed, trailLength, debug, shipReady, anchorReady,
                   trailBuffer, camPos, enemyState, enemyCallbacks, enemiesProp,
                   anchorImpulses>>
    /\ UNCHANGED juiceVars

\* AirshipController re-renders (a control of one of its panels changed) and
\* passes Anchor a new enemies prop.
AirshipRender ==
    /\ call' = Call("AirshipRender", 0, 0)
    /\ enemiesProp' = LiveEnemies
    /\ UNCHANGED <<chainLength, chainRestLength, chainMinLength, reelSpeed,
                   extendSpeed, trailLength, debug, shipReady, anchorReady,
                   trailBuffer, camPos, enemyState, enemyCallbacks, enemyHandle,
                   anchorImpulses>>
    /\ UNCHANGED juiceVars

(***************************************************************************)
(* Terrain: the camera-following height field of Planet (Spiral.jsx).      *)
(***************************************************************************)
\* Half the number of segments of the plane along each axis (50 in the
\* program).
GridHalf == 1
\* segmentSize = planeWidth / planeWidthSegments = 1, in hundredths.
SegmentSize == 100

\* The 'Planet Terrain' controls: octaves; frequency, amplitude, lacunarity
\* and persistence in thousandths; heightScale; heightOffset in hundredths.
\* The first entry holds the initial values.
TerrainDefaults ==
    [octaves |-> 2, frequency |-> 60, amplitude |-> 300, lacunarity |-> 1600,
     persistence |-> 900, heightScale |-> 20, heightOffset |-> 15]
TerrainParamSets ==
    {TerrainDefaults,
     [octaves |-> 3, frequency |-> 100, amplitude |-> 400, lacunarity |-> 2000,
      persistence |-> 500, heightScale |-> 20, heightOffset |-> 15]}
\* Values of followPosition (x and z, hundredths) and of the clock (ms).
FollowXs == {-110, -90, 90}
FollowZs == {50, 90, 110}
ElapsedTimes == {1000, 2000}

VARIABLES
    terrainParams,    \* the values of the 'Planet Terrain' controls
    uTime,            \* uniforms.time.value
    uCameraPosition,  \* uniforms.uCameraPosition.value
    prevFollow,       \* history: uCameraPosition before the last frame
    positionBuffer,   \* positionStorageAttribute, by vertex index
    baseBuffer,       \* baseStorageAttribute, by vertex index
    heightLog,        \* history: every (x, z, height) written to the
                      \* position buffer since the controls last changed
    fbmArgs,          \* arguments of the fbm evaluation under study
    fbmResult         \* its result

terrainVars == <<terrainParams, uTime, uCameraPosition, prevFollow,
                 positionBuffer, baseBuffer, heightLog>>
fbmVars == <<fbmArgs, fbmResult>>

\* Vertices per row of the plane, and the vertex indices.
GridSide == 2 * GridHalf + 1
Vertices == 1..(GridSide * GridSide)

\* The vertex index of PlaneGeometry after rotateX, lying in the xz plane:
\* the initial data of both storage buffers.
BasePosition(index) ==
    Vec((((index - 1) % GridSide) - GridHalf) * SegmentSize,
        0,
        (((index - 1) \div GridSide) - GridHalf) * SegmentSize)

\* c.div(uSegmentSize).floor().mul(uSegmentSize) with the floor replaced by
\* a rounding to the nearest cell.
Snap_Round(c) == ((c + SegmentSize \div 2) \div SegmentSize) * SegmentSize

\* c.div(uSegmentSize).floor().mul(uSegmentSize); \div rounds down.
Snap(c) == (c \div SegmentSize) * SegmentSize

\* worldOffset = vec3(snapX, 0.0, snapZ)
WorldOffset(cam) == Vec(Snap(cam.x), 0, Snap(cam.z))

\* cnoise(vec3(x, 0, z)) of Perlin.js, which is not among the sources: a
\* fixed function of the sample point with values in [-1, 1] (hundredths).
cnoise(x, z) == ((x * 37 + z * 61 + x * z) % 201) - 100

\* Product of two fixed-point numbers, the second in thousandths.
MulMilli(a, b) == Quot(a * b, 1000)

\* The Loop of fbm from octave k on: total, currFreq and currAmp are the
\* loop variables.
RECURSIVE FbmLoop(_, _, _, _, _, _, _, _)
FbmLoop(p, k, octaves, total, currFreq, currAmp, lacunarity, persistence) ==
    IF k >= octaves THEN total
    ELSE LET noiseVal == cnoise(MulMilli(p.x, currFreq), MulMilli(p.z, currFreq))
         IN FbmLoop(p, k + 1, octaves, total + MulMilli(noiseVal, currAmp),
                    MulMilli(currFreq, lacunarity),
                    MulMilli(currAmp, persistence), lacunarity, persistence)

\* fbm with the amplitude of the first octave applied to none of them.
fbm_Unscaled(pos, octaves, frequency, amplitude, lacunarity, persistence) ==
    FbmLoop(pos, 0, octaves, 0, frequency, 1000, lacunarity, persistence)

\* fbm(pos, octaves, frequency, amplitude, lacunarity, persistence)
fbm(pos, octaves, frequency, amplitude, lacunarity, persistence) ==
    FbmLoop(pos, 0, octaves, 0, frequency, amplitude, lacunarity, persistence)

\* The height with the elapsed time added to the sample point.
Height_Animated(worldPos, prm, time) ==
    (fbm(Vec(worldPos.x + time, 0, worldPos.z), prm.octaves, prm.frequency,
         prm.amplitude, prm.lacunarity, prm.persistence)
         + prm.heightOffset) * prm.heightScale

\* height = noiseValue.add(uHeightOffset).mul(uHeightScale)
Height(worldPos, prm, time) ==
    (fbm(worldPos, prm.octaves, prm.frequency, prm.amplitude, prm.lacunarity,
         prm.persistence) + prm.heightOffset) * prm.heightScale

\* finalPos of computeUpdate for one vertex, localPos being
\* baseBuffer.element(index).
FinalPosition(localPos, cam, prm, time) ==
    LET worldPos == Vec(localPos.x + WorldOffset(cam).x, 0,
                        localPos.z + WorldOffset(cam).z)
    IN Vec(worldPos.x, Height(worldPos, prm, time), worldPos.z)

TerrainInit ==
    /\ terrainParams = TerrainDefaults
    /\ uTime = 0
    /\ uCameraPosition = Vec(0, 0, 0)
    /\ prevFollow = Vec(0, 0, 0)
    /\ positionBuffer = [i \in Vertices |-> BasePosition(i)]
    /\ baseBuffer = [i \in Vertices |-> BasePosition(i)]
    /\ heightLog = {}

\* A control of the 'Planet Terrain' panel is changed.
SetTerrainControls ==
    /\ call' = Call("SetTerrainControls", 0, 0)
    /\ \E prm \in TerrainParamSets \ {terrainParams} : terrainParams' = prm
    /\ heightLog' = {}
    /\ UNCHANGED <<uTime, uCameraPosition, prevFollow, positionBuffer,
                   baseBuffer>>

\* A frame whose update works in place: it reads the local position from
\* the buffer it writes, and keeps the grid it moved as the base grid.
PlanetFrame_InPlace(targetPos, elapsed) ==
    /\ call' = Call("PlanetFrame", targetPos.x, targetPos.z)
    /\ uTime' = elapsed
    /\ uCameraPosition' = targetPos
    /\ prevFollow' = uCameraPosition
    /\ positionBuffer' =
           [i \in Vertices |->
               FinalPosition(positionBuffer[i], targetPos, terrainParams,
                             elapsed)]
    /\ baseBuffer' =
           [i \in Vertices |->
               Vec(positionBuffer'[i].x, 0, positionBuffer'[i].z)]
    /\ heightLog' = heightLog \cup {positionBuffer'[i] : i \in Vertices}
    /\ UNCHANGED terrainParams

\* Planet's useFrame callback: the uniforms are set and computeUpdate is
\* dispatched over all vertices.
PlanetFrame(targetPos, elapsed) ==
    /\ call' = Call("PlanetFrame", targetPos.x, targetPos.z)
    /\ uTime' = elapsed
    /\ uCameraPosition' = targetPos
    /\ prevFollow' = uCameraPosition
    /\ positionBuffer' =
           [i \in Vertices |->
               FinalPosition(baseBuffer[i], targetPos, terrainParams, elapsed)]
    /\ heightLog' = heightLog \cup {positionBuffer'[i] : i \in Vertices}
    /\ UNCHANGED <<terrainParams, baseBuffer>>

\* Arguments fbm is evaluated with: points (hundredths), octave counts and
\* the noise parameters of TerrainParamSets.
FbmPoints ==
    {Vec(x, 0, z) : x \in {-200, -50, 0, 100, 300}, z \in {-100, 0, 200}}
FbmOctaves == {0, 1, 2, 3}
FbmArgSet ==
    [pos : FbmPoints, octaves : FbmOctaves, prm : TerrainParamSets]

\* Nothing is evaluated yet.
FbmInit ==
    /\ fbmArgs = [pos |-> Vec(0, 0, 0), octaves |-> 0, prm |-> TerrainDefaults]
    /\ fbmResult = 0

\* fbm is evaluated on arguments a.
EvalFbm(a) ==
    /\ call' = Call("fbm", a.octaves, 0)
    /\ fbmArgs' = a
    /\ fbmResult' = fbm(a.pos, a.octaves, a.prm.frequency, a.prm.amplitude,
                        a.prm.lacunarity, a.prm.persistence)

(***************************************************************************)
(* Galaxy particles: hash and computeInit (Galaxy.jsx).                    *)
(***************************************************************************)
\* Seeds hash is evaluated on, in thousandths: the multiples of 0.25 up to
\* 30, among them the integer seeds computeInit uses.
HashSeeds == {k * 250 : k \in 0..120}

VARIABLES
    hashSeed,    \* the seed of the hash evaluation under study
    hashResult   \* its result, in thousandths

hashVars == <<hashSeed, hashResult>>

\* fract() of a number in thousandths; % yields the non-negative remainder.
Fract(x) == x % 1000

\* hash(seed): h = seed.fract().mul(0.1031), then
\* h.mul(h.add(33.33)).mul(h.add(h)).fract(); all values in thousandths.
hash(seed) ==
    LET h == (Fract(seed) * 1031) \div 10000
    IN Fract((((h * (h + 33330)) \div 1000) * (h + h)) \div 1000)

\* Nothing is evaluated yet; hash(0) is 0.
HashInit ==
    /\ hashSeed = 0
    /\ hashResult = 0

\* hash is evaluated on seed.
EvalHash(seed) ==
    /\ call' = Call("hash", seed, 0)
    /\ hashSeed' = seed
    /\ hashResult' = hash(seed)

\* The number of particles (STAR_COUNT, 1 000 000 in the program) and their
\* indices.
StarCount == 2
Particles == 0..(StarCount - 1)

\* The parameters of computeInit: armCount; galaxyRadius and armWidth in
\* hundredths; spiralTightness, thickness and randomness in units.
ArmCount == 4
GalaxyRadius == 5000
SpiralTightness == 2
ArmWidth == 800
Thickness == 5
Randomness == 5
\* 6.28318 and 1.5708, the angles computeInit uses for a full and a quarter
\* turn, in ten-thousandths of a radian.
FullTurn == 62832
QuarterTurn == 15708

\* Hash outputs (thousandths) tried for the five draws of one particle.
RadiusDraws == {0, 999}
ArmDraws == {600}
RadiusOffsetDraws == {0, 469, 999}
AngleOffsetDraws == {0, 999}
HeightDraws == {0, 999}

VARIABLES
    galaxyPosition,          \* positionBuffer of Galaxy.jsx
    galaxyOriginalPosition,  \* originalPositionBuffer
    galaxyVelocity,          \* velocityBuffer
    densityFactor,           \* densityFactorBuffer
    updatePasses,            \* update passes the device has run
    firstInit                \* what the first initialize pass wrote

galaxyBuffers == <<galaxyPosition, galaxyOriginalPosition, galaxyVelocity,
                   densityFactor>>

galaxyVars == <<galaxyBuffers, updatePasses, firstInit>>

\* sin of an angle x in [0, pi/4] by its Taylor polynomial; angles and
\* results in ten-thousandths.
SinSmall(x) ==
    LET x2 == (x * x) \div 10000
        x3 == (x2 * x) \div 10000
        x5 == (x3 * x2) \div 10000
    IN x - x3 \div 6 + x5 \div 120

\* cos of an angle x in [0, pi/4] by its Taylor polynomial.
CosSmall(x) ==
    LET x2 == (x * x) \div 10000
        x4 == (x2 * x2) \div 10000
        x6 == (x4 * x2) \div 10000
    IN 10000 - x2 \div 2 + x4 \div 24 - x6 \div 720

\* sin of an angle in the first quarter turn.
SinQuarter(x) ==
    IF 2 * x <= QuarterTurn THEN SinSmall(x) ELSE CosSmall(QuarterTurn - x)

\* sin(angle), for any angle.
Sin(angle) ==
    LET m == angle % FullTurn
    IN IF m <= QuarterTurn THEN SinQuarter(m)
       ELSE IF m <= 2 * QuarterTurn THEN SinQuarter(2 * QuarterTurn - m)
       ELSE IF m <= 3 * QuarterTurn THEN -SinQuarter(m - 2 * QuarterTurn)
       ELSE -SinQuarter(FullTurn - m)

\* cos(angle), for any angle.
Cos(angle) == Sin(angle + QuarterTurn)

\* a * b / d rounded toward zero, for d a multiple of 10000, computed in
\* two parts so that no intermediate product leaves the 32-bit range.
MulDiv(a, b, d) ==
    LET q == a \div 10000
        r == a % 10000
        e == d \div 10000
        qb == q * b
    IN qb \div e + ((qb % e) * 10000 + r * b) \div d

\* a * b / d rounded toward zero, for operands of either sign.
Scale(a, b, d) ==
    IF (a < 0) = (b < 0) THEN MulDiv(Abs(a), Abs(b), d)
    ELSE -MulDiv(Abs(a), Abs(b), d)

\* A buffer element that holds no finite number.
NotFinite == [x |-> 0, y |-> 0, z |-> 0, finite |-> FALSE]
Finite(v) == [x |-> v.x, y |-> v.y, z |-> v.z, finite |-> TRUE]

\* The density factor without the cap at 1.
Sparsity_Uncapped(radiusOffset, angleOffset) ==
    ((Abs(radiusOffset) * 1000) \div (ArmWidth \div 2 + 1)
        + (Abs(angleOffset) * 10) \div (Randomness * 50 + 1)) \div 2

\* sparsityFactor: radialSparsity plus angularSparsity, halved and capped
\* at 1; the result is in thousandths.
Sparsity(radiusOffset, angleOffset) ==
    Min(((Abs(radiusOffset) * 1000) \div (ArmWidth \div 2 + 1)
            + (Abs(angleOffset) * 10) \div (Randomness * 50 + 1)) \div 2,
        1000)

\* The velocity along the radius instead of across it.
InitialVelocity_Radial(finalAngle, finalRadius) ==
    LET offsetRadius == finalRadius + 50
        orbitalSpeed == Quot(5 * 1000000, offsetRadius)
        velocityAngle == finalAngle
    IN IF offsetRadius = 0 THEN NotFinite
       ELSE Finite(Vec(Scale(orbitalSpeed, Cos(velocityAngle), 10000), 0,
                       Scale(orbitalSpeed, Sin(velocityAngle), 10000)))

\* The initial orbital velocity of computeInit: speed 5 / (finalRadius + 0.5)
\* at the angle finalAngle + 1.5708; the division by 0 yields an infinite
\* speed and a velocity with non-finite components.
InitialVelocity(finalAngle, finalRadius) ==
    LET offsetRadius == finalRadius + 50
        orbitalSpeed == Quot(5 * 1000000, offsetRadius)
        velocityAngle == finalAngle + QuarterTurn
    IN IF offsetRadius = 0 THEN NotFinite
       ELSE Finite(Vec(Scale(orbitalSpeed, Cos(velocityAngle), 10000), 0,
                       Scale(orbitalSpeed, Sin(velocityAngle), 10000)))

\* What computeInit writes for one particle whose five hash values are
\* h[1]..h[5].  Radii are in hundredths and angles in ten-thousandths of a
\* radian; the position and the velocity written to the buffers are in
\* ten-thousandths of a unit, the resolution the rotation of an update pass
\* (a few thousandths of a radian) needs.
InitialParticle(h) ==
    LET radius == (Isqrt(h[1] * 1000) * GalaxyRadius) \div 1000
        normalizedRadius == (radius * 1000) \div GalaxyRadius
        armIndex == (h[2] * ArmCount) \div 1000
        armAngle == (armIndex * FullTurn) \div ArmCount
        spiralAngle == (normalizedRadius * SpiralTightness * FullTurn) \div 1000
        totalAngle == armAngle + spiralAngle
        radiusOffset == Quot((h[3] - 500) * 2 * ArmWidth, 1000)
        angleOffset ==
            Quot((h[4] - 500) * 2 * Randomness * 1000, radius + 100)
        finalAngle == totalAngle + angleOffset
        finalRadius == radius + radiusOffset
        x == Quot(Cos(finalAngle) * finalRadius, 100)
        z == Quot(Sin(finalAngle) * finalRadius, 100)
        maxThickness ==
            (Thickness * (1000 - (normalizedRadius * 7) \div 10)) \div 10
        y == Quot((h[5] - 500) * 2 * maxThickness, 10)
    IN [position |-> Vec(x, y, z),
        velocity |-> InitialVelocity(finalAngle, finalRadius),
        density |-> Sparsity(radiusOffset, angleOffset)]

\* The buffers as created by instancedArray: zero-filled.
GalaxyInit ==
    /\ galaxyPosition = [i \in Particles |-> Vec(0, 0, 0)]
    /\ galaxyOriginalPosition = [i \in Particles |-> Vec(0, 0, 0)]
    /\ galaxyVelocity = [i \in Particles |-> Finite(Vec(0, 0, 0))]
    /\ densityFactor = [i \in Particles |-> 0]
    /\ updatePasses = 0
    /\ firstInit = <<>>

\* The particle idx holds what an invocation of computeInit wrote.
Initialized(idx) == galaxyPosition[idx] # Vec(0, 0, 0)

\* One invocation of computeInit, for the particle idx; h holds the values
\* the five calls of hash return.  A dispatch runs it for every index.
ComputeInitElement(idx, h) ==
    /\ call' = Call("computeInit", idx, 0)
    /\ galaxyPosition' =
           [galaxyPosition EXCEPT ![idx] = InitialParticle(h).position]
    /\ galaxyOriginalPosition' =
           [galaxyOriginalPosition EXCEPT ![idx] = InitialParticle(h).position]
    /\ galaxyVelocity' =
           [galaxyVelocity EXCEPT ![idx] = InitialParticle(h).velocity]
    /\ densityFactor' =
           [densityFactor EXCEPT ![idx] = InitialParticle(h).density]
    /\ UNCHANGED <<updatePasses, firstInit>>

\* The five values hash returns in the invocation for the particle idx:
\* hash(seed + 1) .. hash(seed + 5) with seed = idx.toFloat().
HashDraws(idx) ==
    <<hash((idx + 1) * 1000), hash((idx + 2) * 1000), hash((idx + 3) * 1000),
      hash((idx + 4) * 1000), hash((idx + 5) * 1000)>>

\* The four buffers as a dispatch of computeInit leaves them.
InitPass ==
    [position |-> [i \in Particles |-> InitialParticle(HashDraws(i)).position],
     original |-> [i \in Particles |-> InitialParticle(HashDraws(i)).position],
     velocity |-> [i \in Particles |-> InitialParticle(HashDraws(i)).velocity],
     density |-> [i \in Particles |-> InitialParticle(HashDraws(i)).density]]

\* An initialize pass that writes no velocity.
ComputeInit_KeepingVelocity ==
    /\ call' = Call("computeInitPass", 0, 0)
    /\ galaxyPosition' = InitPass.position
    /\ galaxyOriginalPosition' = InitPass.original
    /\ galaxyVelocity' =
           IF firstInit = <<>> THEN InitPass.velocity ELSE galaxyVelocity
    /\ densityFactor' = InitPass.density
    /\ firstInit' = IF firstInit = <<>> THEN <<InitPass>> ELSE firstInit
    /\ UNCHANGED updatePasses

\* The device runs a dispatch of computeInit (gl.computeAsync(computeInit)
\* of the mount effect, which runs again when gl changes): every particle
\* is written.
ComputeInit ==
    /\ call' = Call("computeInitPass", 0, 0)
    /\ galaxyPosition' = InitPass.position
    /\ galaxyOriginalPosition' = InitPass.original
    /\ galaxyVelocity' = InitPass.velocity
    /\ densityFactor' = InitPass.density
    /\ firstInit' = IF firstInit = <<>> THEN <<InitPass>> ELSE firstInit
    /\ UNCHANGED updatePasses

\* Update passes considered in one behaviour.
MaxAdvances == 8
\* Delta times (ms) of the frames that dispatch the update pass.
GalaxyDeltas == {0, 16, 33}
\* deltaTime of computeUpdate, uniform(0.016), in ms; it is created inside the
\* shader function and no frame assigns it.
UpdateDeltaTime == 16

\* length(vec2(position.x, position.z)), in hundredths.
HorizontalRadius(p) == Length(Vec(Quot(p.x, 100), 0, Quot(p.z, 100)))

\* rotationAmount = 1 / (distFromCenter * 0.1 + 1) * deltaTime * 0.5, in
\* millionths of a radian; dist is in hundredths and deltaTime in ms.
RotationAmount(dist, deltaTime) ==
    (deltaTime * 500 * 1000) \div (dist + 1000)

\* sin of an angle of at most a few thousandths of a radian, angle and
\* result in millionths.
SinTiny(a) == a - (((a * a) \div 1000000) * a) \div 6000000

\* 1 - cos of such an angle, in units of 10^-9.
VersTiny(a) == (a * a) \div 2000

\* rotateXZ with the operands of the second row exchanged.
rotateXZ_Sheared(p, angle) ==
    Vec(p.x - Scale(p.x, VersTiny(angle), 1000000000)
            - Scale(p.z, SinTiny(angle), 1000000),
        p.y,
        p.z - Scale(p.x, VersTiny(angle), 1000000000)
            + Scale(p.z, SinTiny(angle), 1000000))

\* rotateXZ(p, angle): (x cos - z sin, y, x sin + z cos), with cos written as
\* 1 - (1 - cos).
rotateXZ(p, angle) ==
    Vec(p.x - Scale(p.x, VersTiny(angle), 1000000000)
            - Scale(p.z, SinTiny(angle), 1000000),
        p.y,
        p.z - Scale(p.z, VersTiny(angle), 1000000000)
            + Scale(p.x, SinTiny(angle), 1000000))

\* What one invocation of computeUpdate writes for a particle that holds
\* position p and velocity v; arithmetic on a non-finite velocity yields a
\* non-finite velocity.
UpdatedParticle(p, v) ==
    LET rotationAmount == RotationAmount(HorizontalRadius(p), UpdateDeltaTime)
    IN [position |-> rotateXZ(p, rotationAmount),
        velocity |-> IF v.finite THEN Finite(rotateXZ(v, rotationAmount))
                     ELSE NotFinite]

\* An update pass whose invocation for a particle reads the next particle.
ComputeUpdate_FromNeighbour(delta) ==
    /\ call' = Call("computeUpdatePass", delta, 0)
    /\ \A i \in Particles : Initialized(i)
    /\ updatePasses < MaxAdvances
    /\ updatePasses' = updatePasses + 1
    /\ galaxyPosition' =
           [i \in Particles |->
               UpdatedParticle(galaxyPosition[(i + 1) % StarCount],
                               galaxyVelocity[(i + 1) % StarCount]).position]
    /\ galaxyVelocity' =
           [i \in Particles |->
               UpdatedParticle(galaxyPosition[(i + 1) % StarCount],
                               galaxyVelocity[(i + 1) % StarCount]).velocity]
    /\ UNCHANGED <<galaxyOriginalPosition, densityFactor, firstInit>>

\* The device runs the dispatch of computeUpdate that the useFrame callback
\* of a frame with delta time delta issued; the callback does not read delta.
\* The device runs dispatches in the order of their submission, and the mount
\* effect submits the initialize dispatch before the first frame.
ComputeUpdate(delta) ==
    /\ call' = Call("computeUpdatePass", delta, 0)
    /\ \A i \in Particles : Initialized(i)
    /\ updatePasses < MaxAdvances
    /\ updatePasses' = updatePasses + 1
    /\ galaxyPosition' =
           [i \in Particles |->
               UpdatedParticle(galaxyPosition[i], galaxyVelocity[i]).position]
    /\ galaxyVelocity' =
           [i \in Particles |->
               UpdatedParticle(galaxyPosition[i], galaxyVelocity[i]).velocity]
    /\ UNCHANGED <<galaxyOriginalPosition, densityFactor, firstInit>>

fieldVars == <<terrainVars, fbmVars, hashVars, galaxyVars>>

vars == <<simVars, tetherVars, juiceVars, fieldVars, call>>

\* The state after construction of the scene.
\* The state of the noise and particle functions before any evaluation.
FieldInit == TerrainInit /\ FbmInit /\ HashInit /\ GalaxyInit

Init == SimInit /\ TetherInit /\ JuiceInit /\ FieldInit

NextSim ==
    /\ ReRender \/ RunEffects \/ InitResolve \/ InitReject \/ FrameTick
    /\ UNCHANGED <<tetherVars, juiceVars, fieldVars>>

SpecSim == Init /\ [][NextSim]_vars

\* Chain-length control: the controls panel, the ship body and frames.
InitChain == Init /\ variant = "Galaxy"

NextChain ==
    /\ \/ SetChainControls
       \/ ShipAttach
       \/ SetDebug
       \/ \E lasso \in BOOLEAN, delta \in DeltaSet :
              AirshipFrame(lasso, delta, CamInit)
    /\ UNCHANGED <<simVars, juiceVars, fieldVars>>

SpecChain == InitChain /\ [][NextChain]_vars

\* Trail buffer: the trailLength slider, the two bodies and frames.
NextTrail ==
    /\ \/ SetTrailLength
       \/ ShipAttach
       \/ AnchorAttach
       \/ \E pos \in AnchorPositions :
              AnchorFrame(pos, ShipPosition, Vec(0, 0, 0), 50)
    /\ UNCHANGED <<simVars, juiceVars, fieldVars>>

SpecTrail == InitChain /\ [][NextTrail]_vars

\* Time scale: the hitstop and slow-motion triggers, the combined effects and
\* frames; the random draws are fixed at the centre, so the shake started by
\* the combined effects does not move the camera.
NextTime ==
    /\ \/ \E d \in HitstopDurations : triggerHitstop(d)
       \/ \E a \in SlowMoArgs : triggerSlowMo(a[1], a[2])
       \/ \E dmg \in DamageSet : triggerHitEffect(dmg)
       \/ triggerKillEffect
       \/ \E delta \in DeltaSet : JuiceFrame(delta, 500, 500)
    /\ UNCHANGED <<simVars, fieldVars>>

SpecTime == InitChain /\ [][NextTime]_vars

\* A frame of GameJuiceProcessor with a positive delta time.
PositiveFrame ==
    /\ \E delta \in DeltaSet \ {0} : JuiceFrame(delta, 500, 500)
    /\ UNCHANGED <<simVars, fieldVars>>

\* Time scale with the render loop running: frames of positive delta time
\* keep coming.
SpecTimeLive == SpecTime /\ WF_vars(PositiveFrame)

\* Screen shake: the shake trigger, frames of the shake and of the camera
\* follow, the ship body and the debug switch.
NextShake ==
    /\ \/ \E a \in ShakeArgs : triggerShake(a[1], a[2])
       \/ \E delta \in DeltaSet, rx \in RandSet, ry \in RandSet :
              JuiceFrame(delta, rx, ry)
       \/ \E delta \in DeltaSet, tgt \in CamTargets :
              (AirshipFrame(FALSE, delta, tgt) /\ UNCHANGED juiceVars)
       \/ (ShipAttach /\ UNCHANGED juiceVars)
       \/ (SetDebug /\ UNCHANGED juiceVars)
    /\ UNCHANGED <<simVars, fieldVars>>

SpecShake == InitChain /\ [][NextShake]_vars

\* The scene after mount with the trailLength slider moved to 0, so that the
\* trail buffer stays empty.
InitNoTrail ==
    /\ SimInit /\ variant = "Galaxy"
    /\ TetherInitWith(0)
    /\ JuiceInit
    /\ FieldInit

\* Frame times of the anchor's frames, in ms.
AnchorDeltaSet == {0, 50}

\* Spring-damper: the two bodies, frames that reel the chain in by 0.8 and
\* frames of the anchor at different places and velocities.
NextSpring ==
    /\ \/ ShipAttach
       \/ AnchorAttach
       \/ AirshipFrame(TRUE, 100, CamInit)
       \/ \E pos \in SpringAnchorPositions, vel \in AnchorVelocities,
             delta \in AnchorDeltaSet :
              AnchorFrame(pos, ShipPosition, vel, delta)
    /\ UNCHANGED <<simVars, juiceVars, fieldVars>>

SpecSpring == InitNoTrail /\ [][NextSpring]_vars

\* Aim assist: enemies taking damage and re-rendering, re-renders of
\* AirshipController and frames of the anchor hanging 2 below the ship.
NextAim ==
    /\ \/ (ShipAttach /\ UNCHANGED juiceVars)
       \/ (AnchorAttach /\ UNCHANGED juiceVars)
       \/ AirshipRender
       \/ \E i \in 1..3, dmg \in KillingDamage : EnemyTakeDamage(i, dmg)
       \/ \E i \in 1..3 : EnemyRender(i)
       \/ \E pos \in AimAnchorPositions, delta \in AnchorDeltaSet :
              (AnchorFrame(pos, Vec(pos.x, pos.y + 200, pos.z),
                           Vec(0, 0, 0), delta)
               /\ UNCHANGED juiceVars)
    /\ UNCHANGED <<simVars, fieldVars>>

\* Enemies: calls of takeDamage on the attached handles, with any damage,
\* and re-renders of the enemies.
NextEnemy ==
    /\ \/ \E i \in 1..3, damage \in DamageSet : EnemyTakeDamage(i, damage)
       \/ \E i \in 1..3 : EnemyRender(i)
    /\ UNCHANGED <<simVars, fieldVars>>

SpecEnemy == InitNoTrail /\ [][NextEnemy]_vars

SpecAim == InitNoTrail /\ [][NextAim]_vars

\* Terrain: changes of the noise controls and frames that follow the
\* player.
NextTerrain ==
    /\ \/ SetTerrainControls
       \/ \E x \in FollowXs, z \in FollowZs, t \in ElapsedTimes :
              PlanetFrame(Vec(x, 0, z), t)
    /\ UNCHANGED <<simVars, tetherVars, juiceVars, fbmVars, hashVars,
                   galaxyVars>>

SpecTerrain == InitChain /\ [][NextTerrain]_vars

\* Fractal noise: evaluations of fbm.
NextFbm ==
    /\ \E a \in FbmArgSet : EvalFbm(a)
    /\ UNCHANGED <<simVars, tetherVars, juiceVars, terrainVars, hashVars,
                   galaxyVars>>

SpecFbm == InitChain /\ [][NextFbm]_vars

\* The particle hash: evaluations of hash.
NextHash ==
    /\ \E seed \in HashSeeds : EvalHash(seed)
    /\ UNCHANGED <<simVars, tetherVars, juiceVars, terrainVars, fbmVars,
                   galaxyVars>>

SpecHash == InitChain /\ [][NextHash]_vars

\* Particle initialisation: invocations of computeInit, the hash values
\* being any values in [0, 1).
NextGalaxyInit ==
    /\ \E idx \in Particles, h1 \in RadiusDraws, h2 \in ArmDraws,
          h3 \in RadiusOffsetDraws, h4 \in AngleOffsetDraws,
          h5 \in HeightDraws :
              ComputeInitElement(idx, <<h1, h2, h3, h4, h5>>)
    /\ UNCHANGED <<simVars, tetherVars, juiceVars, terrainVars, fbmVars,
                   hashVars>>

SpecGalaxyInit == InitChain /\ [][NextGalaxyInit]_vars

\* The particle simulation of Galaxy.jsx: initialize passes and the update
\* passes of the frames.
NextGalaxy ==
    /\ \/ ComputeInit
       \/ \E delta \in GalaxyDeltas : ComputeUpdate(delta)
    /\ UNCHANGED <<simVars, tetherVars, juiceVars, terrainVars, fbmVars,
                   hashVars>>

SpecGalaxy == InitChain /\ [][NextGalaxy]_vars

\* The update passes on particles of any initial radius: the initialize
\* invocations with the hash values being any values in [0, 1), or the
\* initialize pass, and then the update passes of frames.
NextGalaxyAny ==
    /\ \/ /\ updatePasses = 0
          /\ \E idx \in Particles, h1 \in RadiusDraws, h2 \in ArmDraws,
                h3 \in RadiusOffsetDraws, h4 \in AngleOffsetDraws,
                h5 \in HeightDraws :
                    ComputeInitElement(idx, <<h1, h2, h3, h4, h5>>)
       \/ /\ updatePasses = 0
          /\ ComputeInit
       \/ ComputeUpdate(UpdateDeltaTime)
    /\ UNCHANGED <<simVars, tetherVars, juiceVars, terrainVars, fbmVars,
                   hashVars>>

SpecGalaxyAny == InitChain /\ [][NextGalaxyAny]_vars

(***************************************************************************)
(* Particle simulator lifecycle.                                           *)
(***************************************************************************)
\* C1: an advance (update) dispatch is issued only after an initialize
\* dispatch has completed.
C1_InitBeforeAdvance ==
    [][advanceCount' > advanceCount => initCompleted > 0]_vars

\* C2: while an initialize has failed and none has succeeded, no update
\* dispatch is issued and nothing is drawn from the buffers.
C2_NoUpdateAfterFailedInit ==
    [][(initFailed > 0 /\ initCompleted = 0)
          => (advanceCount' = advanceCount /\ drawCount' = drawCount)]_vars

\* C3: the initialize dispatch is issued at most once, whatever the number
\* of re-renders and frames.
C3_InitIssuedOnce == initIssued <= 1

(***************************************************************************)
(* Tether.                                                                 *)
(***************************************************************************)
ChainInRange ==
    chainMinLength <= chainLength /\ chainLength <= chainRestLength

\* C4 (as claimed): after every frame chainLength is within
\* [chainMinLength, chainRestLength], for every configuration the controls
\* allow.
C4_ChainAlwaysInRange ==
    [][(call'.op = "AirshipFrame" /\ shipReady) => ChainInRange']_vars

\* C4 (amended): a frame preserves the interval: when chainLength is within
\* [chainMinLength, chainRestLength] before a frame of AirshipController, it
\* is within the interval after the frame.
C4_FramePreservesRange ==
    [][(call'.op = "AirshipFrame" /\ ChainInRange) => ChainInRange']_vars

\* A reel has pulled the chain from its initial length down to the clamp.
C4_Witness ==
    /\ shipReady
    /\ ChainInRange
    /\ chainLength = chainMinLength
    /\ chainLength < ChainLengthInit

\* C5: after a tether frame the trail buffer holds at most trailLength
\* entries.
C5_TrailWithinLength ==
    [][(call'.op = "AnchorFrame" /\ shipReady /\ anchorReady)
          => Len(trailBuffer') <= trailLength]_vars

(***************************************************************************)
(* GameJuice.                                                              *)
(***************************************************************************)
\* C6: getTimeScale() is 0 whenever hitstopRemaining > 0, also while a slow
\* motion is running, and is slowMoFactor whenever hitstopRemaining <= 0.
C6_TimeScaleZeroDuringHitstop ==
    /\ hitstopRemaining > 0 => getTimeScale = 0
    /\ hitstopRemaining <= 0 => getTimeScale = slowMoFactor

\* A hitstop and the kill effect's slow motion (factor 0.3) run together.
C6_Witness ==
    /\ hitstopRemaining > 0
    /\ slowMoRemaining > 0
    /\ slowMoFactor = 30
    /\ getTimeScale = 0

\* C7: every hitstop trigger (direct, or through the hit and kill effects)
\* leaves hitstopRemaining at the maximum of its value before the call and
\* the requested duration: never shorter than before, never the sum.
C7_HitstopTriggerTakesMax ==
    [][/\ call'.op = "triggerHitstop"
            => hitstopRemaining' = Max(hitstopRemaining, call'.a)
       /\ call'.op = "triggerHitEffect"
            => hitstopRemaining' = Max(hitstopRemaining, 30 + 20 * call'.a)
       /\ call'.op = "triggerKillEffect"
            => hitstopRemaining' = Max(hitstopRemaining, 100)
       /\ call'.op \in {"triggerHitstop", "triggerHitEffect",
                        "triggerKillEffect"}
            => hitstopRemaining' >= hitstopRemaining]_vars

\* A hitstop was triggered while a longer one was running and left it alone.
C7_Witness ==
    /\ call.op = "triggerHitstop"
    /\ hitstopRemaining > call.a
    /\ hitstopRemaining > 0

\* C8 (as claimed): a shake(0.1) trigger that arrives while a shake whose
\* largest requested intensity is 0.3 is running leaves the intensity at 0.3.
C8_ShakeStaysAtFirstIntensity ==
    [][(call'.op = "triggerShake" /\ call'.a = 10
        /\ shakeDuration > 0 /\ shakePeak = 30)
          => shakeIntensity' = 30]_vars

\* C8 (amended): a shake trigger leaves intensity and duration at the maximum
\* of the value before the call (the intensity as decayed by the frames run
\* so far) and the requested value; it lowers neither.
C8_ShakeTriggerTakesMax ==
    [][call'.op = "triggerShake"
          => /\ shakeIntensity' = Max(shakeIntensity, call'.a)
             /\ shakeDuration' = Max(shakeDuration, call'.b)
             /\ shakeIntensity' >= shakeIntensity
             /\ shakeDuration' >= shakeDuration]_vars

\* shake(0.1) was triggered one frame into a shake(0.3): the intensity is the
\* decayed 0.27.
C8_Witness ==
    /\ call.op = "triggerShake"
    /\ call.a = 10
    /\ shakePeak = 30
    /\ shakeDuration > 0
    /\ shakeIntensity = 27

\* C9 (as claimed): on the frame in which shakeDuration goes from positive
\* to <= 0 the camera is back at the saved origin and the shake state is
\* reset.
C9_RestoredOnExpiryFrame ==
    [][(call'.op = "JuiceFrame" /\ shakeDuration > 0 /\ shakeDuration' <= 0)
          => (camPos' = originalCamPos' /\ ~isShaking'
              /\ shakeIntensity' = 0)]_vars

\* C9 (amended): a frame of GameJuiceProcessor that begins with
\* shakeDuration <= 0 and the shake flag set puts the camera's x and y back
\* to the saved origin, leaves z alone, clears the flag and sets the
\* intensity to 0.
C9_RestoredOnNextFrame ==
    [][(call'.op = "JuiceFrame" /\ shakeDuration <= 0 /\ isShaking)
          => /\ camPos'.x = originalCamPos.x
             /\ camPos'.y = originalCamPos.y
             /\ camPos'.z = camPos.z
             /\ originalCamPos' = originalCamPos
             /\ ~isShaking'
             /\ shakeIntensity' = 0]_vars

\* A shake has run and has been restored: x and y are the saved ones while
\* the camera follow has moved z away from the saved z.
C9_Witness ==
    /\ call.op = "JuiceFrame"
    /\ shakePeak > 0
    /\ shakeDuration <= 0
    /\ ~isShaking
    /\ shakeIntensity = 0
    /\ camPos.x = originalCamPos.x
    /\ camPos.y = originalCamPos.y
    /\ camPos.z # originalCamPos.z

C11_NonNegativeAndDecaying ==
    /\ [](/\ hitstopRemaining >= 0
          /\ shakeIntensity >= 0
          /\ shakeDuration >= 0
          /\ slowMoRemaining >= 0)
    /\ [][call'.op = "JuiceFrame" =>
              /\ hitstopRemaining' <= hitstopRemaining
              /\ shakeIntensity' <= shakeIntensity
              /\ shakeDuration' <= shakeDuration
              /\ slowMoRemaining' <= slowMoRemaining]_vars

(***************************************************************************)
(* Tether physics: the spring-damper term and the aim assist.              *)
(***************************************************************************)
Sign(n) == IF n > 0 THEN 1 ELSE IF n < 0 THEN -1 ELSE 0

\* v is not zero and every component of v that is not zero has the sign of
\* the same component of w.
PointsAlong(v, w) ==
    /\ v # Vec(0, 0, 0)
    /\ Sign(v.x) \in {0, Sign(w.x)}
    /\ Sign(v.y) \in {0, Sign(w.y)}
    /\ Sign(v.z) \in {0, Sign(w.z)}

\* The offset from the ship to the anchor that a frame of the anchor read.
OffsetOf(in) == Sub(in.anchor, in.ship)

\* stiffness times stretch plus damping times radial velocity: the pull
\* toward the ship that is left after damping.
NetPull(in, len) ==
    SpringStiffness * (Length(OffsetOf(in)) - len)
        + SpringDamping * RadialVelocity(in.vel, Normalize(OffsetOf(in)))

\* C12: in a frame (of positive duration) that finds the anchor further from
\* the ship than chainLength, the spring-damper impulse points from the
\* anchor toward the ship, whatever the anchor's velocity.
C12_SpringAlwaysRestoring ==
    [][(/\ call'.op = "AnchorFrame"
        /\ shipReady /\ anchorReady
        /\ anchorImpulses'.input.delta > 0
        /\ Length(OffsetOf(anchorImpulses'.input)) > chainLength)
           => PointsAlong(anchorImpulses'.spring.v,
                          Sub(anchorImpulses'.input.ship, anchorImpulses'.input.anchor))]_vars

\* C12, amended: the impulse is along the chain with the sign of the spring
\* force plus the damping force: toward the ship when stiffness * stretch +
\* damping * radialVelocity is positive (always when the anchor is not
\* moving toward the ship), away from the ship when it is negative, and zero
\* when it is zero or the frame has no duration.
C12_RestoringUnlessOverdamped ==
    [][(/\ call'.op = "AnchorFrame"
        /\ shipReady /\ anchorReady
        /\ Length(OffsetOf(anchorImpulses'.input)) > chainLength)
           => LET in == anchorImpulses'.input
                  v == anchorImpulses'.spring.v
                  pull == NetPull(in, chainLength)
                  vr == RadialVelocity(in.vel, Normalize(OffsetOf(in)))
              IN /\ (in.delta > 0 /\ pull > 0)
                      => PointsAlong(v, Sub(in.ship, in.anchor))
                 /\ (in.delta > 0 /\ vr >= 0)
                      => PointsAlong(v, Sub(in.ship, in.anchor))
                 /\ (in.delta > 0 /\ pull < 0)
                      => PointsAlong(v, Sub(in.anchor, in.ship))
                 /\ (in.delta = 0 \/ pull = 0) => v = Vec(0, 0, 0)]_vars

\* A frame found the chain stretched and the anchor moving toward the ship,
\* slowly enough for the impulse to point toward the ship.
C12_Witness ==
    /\ call.op = "AnchorFrame"
    /\ shipReady /\ anchorReady
    /\ Length(OffsetOf(anchorImpulses.input)) > chainLength
    /\ RadialVelocity(anchorImpulses.input.vel, Normalize(OffsetOf(anchorImpulses.input))) < 0
    /\ anchorImpulses.spring.applied
    /\ PointsAlong(anchorImpulses.spring.v, Sub(anchorImpulses.input.ship, anchorImpulses.input.anchor))

\* C13: a frame applies the spring-damper impulse if and only if the
\* anchor-ship distance is above chainLength; none at distance = chainLength
\* and none at distance 0.
C13_SpringOnlyWhenStretched ==
    [][(call'.op = "AnchorFrame" /\ shipReady /\ anchorReady)
           => LET distance == Length(OffsetOf(anchorImpulses'.input))
              IN /\ anchorImpulses'.spring.applied <=> distance > chainLength
                 /\ distance = chainLength
                      => anchorImpulses'.spring = NoImpulse
                 /\ distance = 0 => anchorImpulses'.spring = NoImpulse]_vars

\* A frame found the anchor exactly chainLength from the ship, after the
\* chain was reeled in, and applied no spring-damper impulse.
C13_Witness ==
    /\ call.op = "AnchorFrame"
    /\ shipReady /\ anchorReady
    /\ chainLength < ChainLengthInit
    /\ Length(OffsetOf(anchorImpulses.input)) = chainLength
    /\ ~anchorImpulses.spring.applied
    /\ anchorImpulses.gravity.applied

\* The enemies of the list es that are horizontally closer to pos than
\* aimAssistRange.
InRange(es, pos) ==
    {es[k] : k \in {n \in 1..Len(es) :
                       HorizontalDistance(pos, EnemyPosition(es[n]))
                           < AimAssistRange}}

\* v is scale times a horizontal vector of length 1 (1000 thousandths, up to
\* the rounding of the normalisation).
HorizontalOfMagnitude(v, scale) ==
    /\ v.y = 0
    /\ IF scale = 0 THEN v = Vec(0, 0, 0)
       ELSE /\ v.x % scale = 0
            /\ v.z % scale = 0
            /\ Length(Vec(v.x \div scale, 0, v.z \div scale)) \in 995..1005

\* What the claim says of a frame that read input in and whose anchor was
\* given the list es: target and impulse v (applied or not).
HomingAsSpecified(es, in, target, impulse, exceptOnTarget) ==
    LET near == InRange(es, in.anchor)
    IN IF near = {} \/ AimAssistStrength <= 0
       THEN target = 0 /\ impulse = NoImpulse
       ELSE LET dist == HorizontalDistance(in.anchor, EnemyPosition(target))
                scale == Falloff(dist) * AimAssistStrength * in.delta
            IN /\ target \in near
               /\ \A j \in near :
                      dist <= HorizontalDistance(in.anchor, EnemyPosition(j))
               /\ impulse.applied
               /\ IF exceptOnTarget /\ dist = 0
                  THEN impulse.v = Vec(0, 0, 0)
                  ELSE /\ HorizontalOfMagnitude(impulse.v, scale)
                       /\ scale > 0 =>
                              PointsAlong(impulse.v,
                                          Sub(EnemyPosition(target),
                                              in.anchor))

\* C14: the aim assist picks the target with the smallest horizontal
\* distance among those closer than aimAssistRange, the homing impulse is
\* horizontal with magnitude (1 - nearestDistance/range) * strength * dt, and
\* there is no homing impulse when no target is in range.
C14_HomingTowardNearest ==
    [][(call'.op = "AnchorFrame" /\ shipReady /\ anchorReady)
           => HomingAsSpecified(enemiesProp, anchorImpulses'.input, anchorImpulses'.target,
                                anchorImpulses'.aim, FALSE)]_vars

\* C14, amended: as C14, except that the impulse is the zero vector when the
\* anchor is horizontally exactly at the nearest target (the direction is
\* the normalisation of a zero vector).
C14_HomingTowardNearestUnlessOnTarget ==
    [][(call'.op = "AnchorFrame" /\ shipReady /\ anchorReady)
           => HomingAsSpecified(enemiesProp, anchorImpulses'.input, anchorImpulses'.target,
                                anchorImpulses'.aim, TRUE)]_vars

\* A frame found the second and the third enemy in range and homed on the
\* second, the nearer one.
C14_Witness ==
    /\ call.op = "AnchorFrame"
    /\ shipReady /\ anchorReady
    /\ anchorImpulses.input.delta > 0
    /\ {2, 3} \subseteq InRange(enemiesProp, anchorImpulses.input.anchor)
    /\ anchorImpulses.target = 2
    /\ HorizontalDistance(anchorImpulses.input.anchor, EnemyPosition(2))
           < HorizontalDistance(anchorImpulses.input.anchor, EnemyPosition(3))
    /\ anchorImpulses.aim.applied
    /\ anchorImpulses.aim.v # Vec(0, 0, 0)

\* C15: the target a frame homes on is alive: an enemy that has died (its
\* isAlive state is false) is never selected by a later frame.
C15_HomingOnlyOnLiveTargets ==
    [][(call'.op = "AnchorFrame" /\ shipReady /\ anchorReady)
           => \/ anchorImpulses'.target = 0
              \/ enemyState[anchorImpulses'.target].alive]_vars

(***************************************************************************)
(* Terrain.                                                                *)
(***************************************************************************)
\* The snapped offset the last update wrote: the displacement of the first
\* vertex from its place in the base buffer.
OffsetWritten ==
    Vec(positionBuffer[1].x - BasePosition(1).x, 0,
        positionBuffer[1].z - BasePosition(1).z)

\* C16: two successive followPosition values (those of two frames that
\* follow each other) less than one cell apart are given the same snapped
\* offset, and two values on either side of a cell
\* boundary offsets that differ by exactly one cell.
C16_SnapStableWithinOneCell ==
    [][(call'.op = "PlanetFrame" /\ uTime > 0) =>
           LET a == uCameraPosition
               b == uCameraPosition'
           IN /\ (Abs(a.x - b.x) < SegmentSize /\ Abs(a.z - b.z) < SegmentSize)
                     => OffsetWritten' = OffsetWritten
              /\ (Abs(a.x - b.x) < SegmentSize
                    /\ a.x \div SegmentSize # b.x \div SegmentSize)
                     => Abs(OffsetWritten'.x - OffsetWritten.x) = SegmentSize
              /\ (Abs(a.z - b.z) < SegmentSize
                    /\ a.z \div SegmentSize # b.z \div SegmentSize)
                     => Abs(OffsetWritten'.z - OffsetWritten.z) = SegmentSize]_vars

\* C16, amended: on each axis, two successive followPosition values in the
\* same grid cell are given the same snapped offset, and two values less
\* than one cell apart that lie in different cells are given offsets that
\* differ by exactly one cell.
C16_SnapStableWithinSameCell ==
    [][call'.op = "PlanetFrame" =>
           LET a == uCameraPosition
               b == uCameraPosition'
           IN /\ a.x \div SegmentSize = b.x \div SegmentSize
                     => OffsetWritten'.x = OffsetWritten.x
              /\ a.z \div SegmentSize = b.z \div SegmentSize
                     => OffsetWritten'.z = OffsetWritten.z
              /\ (Abs(a.x - b.x) < SegmentSize
                    /\ a.x \div SegmentSize # b.x \div SegmentSize)
                     => Abs(OffsetWritten'.x - OffsetWritten.x) = SegmentSize
              /\ (Abs(a.z - b.z) < SegmentSize
                    /\ a.z \div SegmentSize # b.z \div SegmentSize)
                     => Abs(OffsetWritten'.z - OffsetWritten.z) = SegmentSize]_vars

\* The player moved from x = -1.1 to x = -0.9 and from z = 0.9 to z = 0.5:
\* the offset moved one cell along x, to -1, and stayed at 0 along z.
C16_Witness ==
    /\ call.op = "PlanetFrame"
    /\ prevFollow = Vec(-110, 0, 90)
    /\ uCameraPosition = Vec(-90, 0, 50)
    /\ OffsetWritten = Vec(-100, 0, 0)

\* C17: under fixed noise parameters every world coordinate is written the
\* same height, in every frame and from every followPosition.
C17_HeightDependsOnlyOnWorldPosition ==
    \A a \in heightLog, b \in heightLog :
        (a.x = b.x /\ a.z = b.z) => a.y = b.y

\* Two successive frames at different times placed the grid at different
\* offsets, and a coordinate covered by both was written by different
\* vertices.
C17_Witness ==
    /\ call.op = "PlanetFrame"
    /\ uTime = 2000
    /\ WorldOffset(prevFollow) # WorldOffset(uCameraPosition)
    /\ Cardinality(heightLog) > Cardinality(Vertices)
    /\ \E i \in Vertices, j \in Vertices :
           /\ i # j
           /\ BasePosition(i).x + WorldOffset(prevFollow).x = positionBuffer[j].x
           /\ BasePosition(i).z + WorldOffset(prevFollow).z = positionBuffer[j].z
           /\ positionBuffer[j].y # 0

(***************************************************************************)
(* Fractal noise.                                                          *)
(***************************************************************************)
RECURSIVE Pow(_, _)
Pow(b, k) == IF k = 0 THEN 1 ELSE b * Pow(b, k - 1)

\* sample(point * frequency * lacunarity^k) * amplitude * persistence^k
OctaveTerm(a, k) ==
    LET freq == Quot(a.prm.frequency * Pow(a.prm.lacunarity, k), Pow(1000, k))
        amp == Quot(a.prm.amplitude * Pow(a.prm.persistence, k), Pow(1000, k))
    IN MulMilli(cnoise(MulMilli(a.pos.x, freq), MulMilli(a.pos.z, freq)), amp)

RECURSIVE OctaveSum(_, _)
OctaveSum(a, n) == IF n = 0 THEN 0 ELSE OctaveSum(a, n - 1) + OctaveTerm(a, n - 1)

\* C18: fbm is the sum over the octaves k of sample(point * frequency *
\* lacunarity^k) * amplitude * persistence^k: 0 for no octave, one sample
\* times the amplitude for one.
C18_FbmIsOctaveSum ==
    /\ fbmResult = OctaveSum(fbmArgs, fbmArgs.octaves)
    /\ fbmArgs.octaves = 0 => fbmResult = 0
    /\ fbmArgs.octaves = 1 =>
           fbmResult = MulMilli(cnoise(MulMilli(fbmArgs.pos.x,
                                                fbmArgs.prm.frequency),
                                       MulMilli(fbmArgs.pos.z,
                                                fbmArgs.prm.frequency)),
                                fbmArgs.prm.amplitude)

\* fbm was evaluated with three octaves and the result is not 0.
C18_Witness ==
    /\ call.op = "fbm"
    /\ fbmArgs.octaves = 3
    /\ fbmResult # 0

(***************************************************************************)
(* Galaxy particles.                                                       *)
(***************************************************************************)
\* The reference law: h = fract(seed * 0.1031), result = fract(h * (h + 33.33)
\* * 2h), in thousandths.
HashReference(seed) ==
    LET h == Fract((seed * 1031) \div 10000)
    IN Fract((((h * (h + 33330)) \div 1000) * (2 * h)) \div 1000)

\* C19: hash(seed) is the reference law's value for every seed, the integer
\* seeds of computeInit among them, and lies in [0, 1).
C19_HashIsReferenceLaw ==
    /\ hashResult = HashReference(hashSeed)
    /\ hashResult >= 0
    /\ hashResult < 1000

\* C20: after initialize every density factor lies in [0, 1] and every
\* particle is horizontally within galaxyRadius + armWidth of the centre,
\* whatever values in [0, 1) the hash returns.
C20_DensityAndRadiusBounded ==
    \A i \in Particles :
        /\ densityFactor[i] >= 0
        /\ densityFactor[i] <= 1000
        /\ HorizontalRadius(galaxyPosition[i]) <= GalaxyRadius + ArmWidth

\* Every particle is initialised; one lies further out than galaxyRadius
\* with a density factor of 1, another has a density factor below 1.
C20_Witness ==
    /\ call.op = "computeInit"
    /\ \A i \in Particles : Initialized(i)
    /\ \E i \in Particles :
           /\ HorizontalRadius(galaxyPosition[i]) > GalaxyRadius
           /\ densityFactor[i] = 1000
    /\ \E i \in Particles : densityFactor[i] < 1000

(***************************************************************************)
(* Particle passes.                                                        *)
(***************************************************************************)
\* The four buffers as one record.
Buffers(pos, orig, vel, dens) ==
    [position |-> pos, original |-> orig, velocity |-> vel, density |-> dens]

\* C21: every initialize pass, the first and any later one, also one that
\* follows update passes, leaves in the four buffers exactly what the first
\* initialize pass wrote.
C21_InitializeIdempotent ==
    [][call'.op = "computeInitPass"
          => firstInit' = <<Buffers(galaxyPosition', galaxyOriginalPosition',
                                    galaxyVelocity', densityFactor')>>]_vars

\* An initialize pass has run again after update passes moved the particles.
C21_Witness ==
    /\ call.op = "computeInitPass"
    /\ updatePasses > 0
    /\ firstInit # <<>>
    /\ galaxyPosition = firstInit[1].position
    /\ galaxyVelocity = firstInit[1].velocity

\* The squared horizontal radius of p minus that of q, in units of 10^-8.
RadiusSquaredGap(p, q) ==
    (p.x - q.x) * (p.x + q.x) + (p.z - q.z) * (p.z + q.z)

\* The change of the squared radius that the rounding of the two coordinates
\* of p to ten-thousandths can make.
RoundingOfSquare(p) == 4 * (Abs(p.x) + Abs(p.z)) + 8

\* C22: an update pass leaves the horizontal radius of every particle as it
\* was (up to the rounding of the coordinates), and after any number of
\* passes the radius is the radius of the position initialize wrote, to
\* within two hundredths of a unit.
C22_RadiusPreserved ==
    /\ [][call'.op = "computeUpdatePass"
            => \A i \in Particles :
                   Abs(RadiusSquaredGap(galaxyPosition'[i], galaxyPosition[i]))
                       <= RoundingOfSquare(galaxyPosition'[i])]_vars
    /\ [](\A i \in Particles :
             Abs(HorizontalRadius(galaxyPosition[i])
                    - HorizontalRadius(galaxyOriginalPosition[i])) <= 2)

\* After the last of the update passes, a particle near the rim and another
\* have moved away from where initialize put them.
C22_Witness ==
    /\ call.op = "computeUpdatePass"
    /\ updatePasses = MaxAdvances
    /\ \A i \in Particles : galaxyPosition[i] # galaxyOriginalPosition[i]
    /\ \E i \in Particles :
           HorizontalRadius(galaxyOriginalPosition[i]) > GalaxyRadius
    /\ \E i \in Particles :
           HorizontalRadius(galaxyOriginalPosition[i]) < GalaxyRadius

\* C23: the update pass of a frame whose delta time is 0 changes no position
\* and no velocity.
C23_ZeroDeltaIsNoOp ==
    [][(call'.op = "computeUpdatePass" /\ call'.a = 0)
          => /\ galaxyPosition' = galaxyPosition
             /\ galaxyVelocity' = galaxyVelocity]_vars

\* C24: an update pass writes to position[i] and velocity[i] what the
\* invocation for i computes from the old position[i] and velocity[i]; it
\* changes no originalPosition, no densityFactor and no y component; an
\* initialize invocation writes the same vector to position and to
\* originalPosition, which therefore stays the position initialize wrote.
C24_UpdateWritesOwnSlotOnly ==
    [][/\ call'.op = "computeUpdatePass"
            => /\ galaxyOriginalPosition' = galaxyOriginalPosition
               /\ densityFactor' = densityFactor
               /\ \A i \in Particles :
                      LET u == UpdatedParticle(galaxyPosition[i],
                                               galaxyVelocity[i])
                      IN /\ galaxyPosition'[i] = u.position
                         /\ galaxyVelocity'[i] = u.velocity
                         /\ galaxyPosition'[i].y = galaxyPosition[i].y
                         /\ galaxyVelocity'[i].y = galaxyVelocity[i].y
       /\ call'.op = "computeInit"
            => galaxyOriginalPosition'[call'.a] = galaxyPosition'[call'.a]
       /\ call'.op = "computeInitPass"
            => galaxyOriginalPosition' = galaxyPosition']_vars

\* An update pass has moved two particles that differ in position and in
\* height, and originalPosition still holds what initialize wrote.
C24_Witness ==
    /\ call.op = "computeUpdatePass"
    /\ updatePasses >= 2
    /\ \E i, j \in Particles :
           /\ galaxyOriginalPosition[i] # galaxyOriginalPosition[j]
           /\ galaxyPosition[i].y # galaxyPosition[j].y
           /\ galaxyPosition[i].y # 0
           /\ galaxyVelocity[i] # galaxyVelocity[j]
    /\ \A i \in Particles :
           /\ galaxyPosition[i] # galaxyOriginalPosition[i]
           /\ galaxyPosition[i].y = galaxyOriginalPosition[i].y

\* x * vz - z * vx of a particle: positive when the velocity turns the
\* particle one way about the vertical axis, negative for the other way.
RotationSense(p, v) == p.x * v.z - p.z * v.x

\* v is perpendicular to the horizontal radius vector of p: the cosine of
\* their angle is below one thousandth (the resolution of the sines).
Perpendicular(p, v) ==
    Abs(p.x * v.x + p.z * v.z)
        <= (HorizontalRadius(p) * Length(Vec(v.x, 0, v.z))) \div 10

C25_BaseGridNeverWritten ==
    /\ [][/\ baseBuffer' = baseBuffer
          /\ call'.op = "PlanetFrame"
               => \A i \in Vertices :
                      /\ positionBuffer'[i].x
                             = baseBuffer[i].x + Snap(uCameraPosition'.x)
                      /\ positionBuffer'[i].z
                             = baseBuffer[i].z + Snap(uCameraPosition'.z)]_vars
    /\ [](baseBuffer = [i \in Vertices |-> BasePosition(i)])

\* A second frame in a row has moved the grid away from the origin, to
\* another cell than the frame before it.
C25_Witness ==
    /\ call.op = "PlanetFrame"
    /\ WorldOffset(uCameraPosition) # Vec(0, 0, 0)
    /\ WorldOffset(prevFollow) # Vec(0, 0, 0)
    /\ WorldOffset(prevFollow) # WorldOffset(uCameraPosition)
    /\ \A i \in Vertices : positionBuffer[i] # baseBuffer[i]

(***************************************************************************)
(* Screen shake, frame by frame.                                           *)
(***************************************************************************)
\* What a frame that finds shakeDuration > 0 does to the shake state: the
\* origin is saved on the first frame of a shake and kept on the later ones,
\* the intensity decays and the duration goes down by the frame's delta.
ShakeFrameState ==
    /\ originalCamPos' = (IF isShaking THEN originalCamPos ELSE camPos)
    /\ isShaking'
    /\ shakeIntensity' = Decay(shakeIntensity)
    /\ shakeDuration' = shakeDuration - call'.a

\* The camera's coordinate c after the frame is the origin's plus an offset
\* within [-intensity, intensity].
Shaken(c, origin, intensity) == Abs(c - origin) <= intensity

\* C27 (as claimed): a frame of a running shake puts x, y and z of the camera
\* at the saved origin plus an offset within [-intensity, intensity], saves
\* the origin on the first frame of the shake only, multiplies the intensity
\* by shakeDecay and lowers the duration by dt.
C27_ShakeOffsetsEveryAxis ==
    [][(call'.op = "JuiceFrame" /\ shakeDuration > 0)
          => /\ ShakeFrameState
             /\ Shaken(camPos'.x, originalCamPos'.x, shakeIntensity)
             /\ Shaken(camPos'.y, originalCamPos'.y, shakeIntensity)
             /\ Shaken(camPos'.z, originalCamPos'.z, shakeIntensity)]_vars

\* C27 (amended): as C27 for x and y; z is not written by the frame and is
\* where the camera follow left it.
C27_ShakeOffsetsXAndY ==
    [][(call'.op = "JuiceFrame" /\ shakeDuration > 0)
          => /\ ShakeFrameState
             /\ Shaken(camPos'.x, originalCamPos'.x, shakeIntensity)
             /\ Shaken(camPos'.y, originalCamPos'.y, shakeIntensity)
             /\ camPos'.z = camPos.z]_vars

\* A frame of a shake that was retriggered while it ran: the camera is off
\* the saved origin in x and y, and the camera follow has moved z.
C27_Witness ==
    /\ call.op = "JuiceFrame"
    /\ isShaking
    /\ shakeDuration > 0
    /\ shakePeak = 30
    /\ shakeIntensity < 10
    /\ camPos.x # originalCamPos.x
    /\ camPos.y # originalCamPos.y
    /\ camPos.z # originalCamPos.z

(***************************************************************************)
(* Trail order.                                                            *)
(***************************************************************************)
\* The buffer after the frame is the buffer before it moved back by one
\* slot, as far as it reaches, behind the position pos read in the frame.
ShiftedBehind(pos) ==
    /\ Len(trailBuffer') >= 1
    /\ Len(trailBuffer') <= Len(trailBuffer) + 1
    /\ trailBuffer'[1] = pos
    /\ \A k \in 2..Len(trailBuffer') : trailBuffer'[k] = trailBuffer[k - 1]

\* C28 (as claimed): after every processed frame of the anchor slot 0 holds
\* the position read in that frame and slot k the position read k processed
\* frames earlier; a frame skipped because a body is missing leaves the
\* buffer as it is.
C28_TrailIsFifo ==
    [][call'.op = "AnchorFrame"
          => IF shipReady /\ anchorReady
             THEN ShiftedBehind(anchorImpulses'.input.anchor)
             ELSE trailBuffer' = trailBuffer]_vars

\* C28 (amended): as C28, except that a frame that finds the buffer empty
\* while trailLength is 0 leaves it empty.
C28_TrailIsFifoUnlessLengthZero ==
    [][call'.op = "AnchorFrame"
          => IF shipReady /\ anchorReady
             THEN IF trailLength = 0 /\ trailBuffer = <<>>
                  THEN trailBuffer' = <<>>
                  ELSE ShiftedBehind(anchorImpulses'.input.anchor)
             ELSE trailBuffer' = trailBuffer]_vars

\* A processed frame has put a position in front of two older entries that
\* differ from each other.
C28_Witness ==
    /\ call.op = "AnchorFrame"
    /\ shipReady /\ anchorReady
    /\ Len(trailBuffer) >= 3
    /\ trailBuffer[1] = anchorImpulses.input.anchor
    /\ trailBuffer[1] # trailBuffer[2]
    /\ trailBuffer[2] # trailBuffer[3]

(***************************************************************************)
(* Time scale in the long run.                                             *)
(***************************************************************************)
\* C29: if from some point on there are no more triggers and every frame has
\* a positive delta time, then from some point on getTimeScale() is 1.
C29_TimeScaleReturnsToNormal ==
    <>[][call'.op = "JuiceFrame" /\ call'.a > 0]_vars
        => <>[](getTimeScale = NormalTimeScale)

(***************************************************************************)
(* Enemy damage.                                                           *)
(***************************************************************************)
\* C30: onDeath is invoked at most once per enemy; a call of takeDamage on
\* an enemy that is alive lowers its health by the damage, down to 0; a call
\* on an enemy that has died changes no state and invokes no callback;
\* whatever re-renders happen between the calls.
C30_DamageOncePerCall ==
    /\ [](\A i \in 1..3 : enemyCallbacks[i].death <= 1)
    /\ [][call'.op = "takeDamage"
            => /\ enemyState[call'.a].alive
                    => enemyState'[call'.a].health
                           = Max(0, enemyState[call'.a].health - call'.b)
               /\ ~enemyState[call'.a].alive
                    => /\ enemyState' = enemyState
                       /\ enemyCallbacks' = enemyCallbacks]_vars

====
